---- MODULE Spec2Model ----
(***************************************************************************)
(* TWSE auction calendar generator: the snapshot differ, the main run of   *)
(* generate_calendar.py, and the event derivation and calendar             *)
(* serialisation of the three generator scripts.                           *)
(*                                                                         *)
(* Text is a TLA+ string; a character is a string of length 1.  The        *)
(* sources work on Chinese field names and labels; the module's strings    *)
(* are ASCII, so every Chinese literal of the source is written as an      *)
(* ASCII stand-in, named where it is defined.                              *)
(***************************************************************************)
EXTENDS Integers, Sequences, FiniteSets, TLC

VARIABLES
    \* ---- snapshot differ (generate_calendar.diff_data) ----
    old_map,        \* key -> row: previous snapshot
    new_map,        \* key -> row: freshly fetched rows
    diff_out,       \* <<>> before the call, then <<[added, removed, changed]>>
    \* ---- one run after another of generate_calendar.main ----
    pc,             \* where main stands
    run,            \* number of runs started
    year_idx,       \* position of the fetch loop in years
    all_rows,       \* rows fetched so far in this run
    discord_webhook,\* DISCORD_WEBHOOK_URL of this run, "" when unset
    dispatches,     \* payloads posted to the webhook in this run
    cal,            \* VEVENT components build_calendar returned in this run
    snapshot_file,  \* docs/snapshot.json: <<>> when absent, else <<rows>>
    ics_file,       \* docs/twse-auction.ics: <<>> when absent, else <<events>>
    snapshot_at_start,  \* snapshot_file as this run found it
    \* ---- event derivation and serialisation of the three scripts ----
    script,         \* the script at work, "" before one is chosen
    ev_pc,          \* "idle", "rows", "derived", "raised" or "written"
    ev_rows,        \* the two raw rows of the payload
    ev_per_row,     \* for each row alone: what the script derives from it
    ev_all,         \* what the script derives from the payload
    ev_order,       \* the second order the events are serialised in
    ev_lines,       \* the lines of the calendar written
    ev_text,        \* the calendar text written
    ev_text_alt,    \* the text for the same events in the order ev_order
    \* ---- one call of a text function (escaping, folding) ----
    tx_fn,          \* the function applied, "" before the call
    tx_in,          \* its argument
    tx_out,         \* <<>> before the call; then the physical lines (folding),
                    \* or <<text>> (escaping)
    \* ---- generate_twse_auction_calendar.main and its fetch_json calls ----
    gen_pc,         \* "idle", "call", "fetch", "payload", "render", "done" or "failed"
    gen_year,       \* position of fetch_all_events in its years
    gen_rows,       \* rows of the payloads fetched so far
    gen_events,     \* events collected so far
    gen_file,       \* the output calendar: <<>> when absent, else <<text>>
    gen_exit,       \* <<>> while running, else <<exit status>>
    fj_retries,     \* retries of the fetch_json calls of this run
    fj_attempt,     \* attempts the current fetch_json call has made
    fj_trace,       \* what the current or last fetch_json call did, in order
    fj_result       \* how the last fetch_json call ended, <<>> while none has

diffVars == <<old_map, new_map, diff_out>>

mainVars == <<pc, run, year_idx, all_rows, discord_webhook, dispatches, cal,
              snapshot_file, ics_file, snapshot_at_start>>

evVars == <<script, ev_pc, ev_rows, ev_per_row, ev_all, ev_order, ev_lines, ev_text,
            ev_text_alt>>

textVars == <<tx_fn, tx_in, tx_out>>

genVars == <<gen_pc, gen_year, gen_rows, gen_events, gen_file, gen_exit, fj_retries, fj_attempt,
             fj_trace, fj_result>>

vars == <<diffVars, mainVars, evVars, textVars, genVars>>

-----------------------------------------------------------------------------
(* Text: characters, code points, str.strip, str ordering                  *)

\* The printable ASCII characters in code point order: 32 (space) to 95, and 97
\* to 126 (the grave accent, 96, is not used).
PrintableLow == " !\"#$%&'()*+,-./0123456789:;<=>?@ABCDEFGHIJKLMNOPQRSTUVWXYZ[\\]^_"

PrintableHigh == "abcdefghijklmnopqrstuvwxyz{|}~"

CharAt(s, i) == SubSeq(s, i, i)

\* Python's ord() on the characters the model uses, as a table. Three signs
\* stand for characters outside ASCII: "&" for U+00E9 (2 octets in UTF-8), "^"
\* for U+4E2D (3 octets) and "$" for U+1F4CA (4 octets).
CodePoint ==
    ("&" :> 233) @@ ("^" :> 20013) @@ ("$" :> 128202)
    @@ [c \in {CharAt(PrintableLow, i) : i \in 1..Len(PrintableLow)} |->
        31 + (CHOOSE i \in 1..Len(PrintableLow) : CharAt(PrintableLow, i) = c)]
    @@ [c \in {CharAt(PrintableHigh, i) : i \in 1..Len(PrintableHigh)} |->
        96 + (CHOOSE i \in 1..Len(PrintableHigh) : CharAt(PrintableHigh, i) = c)]
    @@ ("\t" :> 9) @@ ("\n" :> 10) @@ ("\r" :> 13)

Ord(c) == CodePoint[c]

\* str.isspace() on the characters the model uses.
IsSpace(c) == c \in {" ", "\t", "\n", "\r"}

RECURSIVE lstrip(_)
lstrip(s) ==
    IF Len(s) > 0 /\ IsSpace(CharAt(s, 1)) THEN lstrip(SubSeq(s, 2, Len(s))) ELSE s

RECURSIVE rstrip(_)
rstrip(s) ==
    IF Len(s) > 0 /\ IsSpace(CharAt(s, Len(s))) THEN rstrip(SubSeq(s, 1, Len(s) - 1)) ELSE s

\* str.strip(): leading and trailing whitespace removed.
strip(s) == rstrip(lstrip(s))

\* Python's str "<": lexicographic by code point, a proper prefix is smaller.
RECURSIVE StrLess(_, _)
StrLess(a, b) ==
    IF Len(b) = 0 THEN FALSE
    ELSE IF Len(a) = 0 THEN TRUE
    ELSE IF CharAt(a, 1) = CharAt(b, 1)
         THEN StrLess(SubSeq(a, 2, Len(a)), SubSeq(b, 2, Len(b)))
         ELSE Ord(CharAt(a, 1)) < Ord(CharAt(b, 1))

\* sorted(S) for a set of strings.
RECURSIVE sorted(_)
sorted(S) ==
    IF S = {} THEN <<>>
    ELSE LET m == CHOOSE x \in S : \A y \in S \ {x} : StrLess(x, y)
         IN  <<m>> \o sorted(S \ {m})

\* x or "-"
OrDash(x) == IF x # "" THEN x ELSE "-"

\* [m[k] for k in keys]
RowsOf(m, keys) == [i \in 1..Len(keys) |-> m[keys[i]]]

\* dict.get(field, ""): a row is a function from the field names it has to text.
Get(row, field) == IF field \in DOMAIN row THEN row[field] ELSE ""

-----------------------------------------------------------------------------
(* Field names.  The feed's columns are Chinese; each is written as an ASCII *)
(* stand-in.  Columns whose label in FIELD_LABELS drops a parenthesised    *)
(* suffix keep a parenthesised suffix here.                                *)
(*   F_CODE     U+8B49 U+5238 U+4EE3 U+865F  security code                 *)
(*   F_NAME     U+8B49 U+5238 U+540D U+7A31  security name                 *)
(*   F_OPEN     U+958B U+6A19 U+65E5 U+671F  open (draw) date              *)
(*   F_MARKET   U+767C U+884C U+5E02 U+5834  market                        *)
(*   F_ISSUE    U+767C U+884C U+6027 U+8CEA  issue type                    *)
(*   F_METHOD   U+7AF6 U+62CD U+65B9 U+5F0F  auction method                *)
(*   F_BROKER   U+4E3B U+8FA6 U+5238 U+5546  lead underwriter              *)
(*   F_BIDSTART U+6295 U+6A19 U+958B U+59CB U+65E5  bid start date         *)
(*   F_BIDEND   U+6295 U+6A19 U+7D50 U+675F U+65E5  bid end date           *)
(*   F_LISTING  U+64A5 U+5238 U+65E5 U+671F (...)   allotment/listing date *)
(*   F_CANCEL   U+53D6 U+6D88 U+7AF6 U+50F9 U+62CD U+8CE3 (...)  cancel    *)
(*   F_QTY, F_PRICE, F_MINLOT, F_MAXLOT, F_DEPOSIT, F_FEE: the quantity,   *)
(*              minimum price, lot limits, deposit and fee columns         *)
(*   F_NOTE     a column FIELD_LABELS does not list                        *)

F_CODE == "code"
F_NAME == "name"
F_OPEN == "open"
F_MARKET == "market"
F_ISSUE == "issue"
F_METHOD == "method"
F_BROKER == "broker"
F_BIDSTART == "bid_start"
F_BIDEND == "bid_end"
F_LISTING == "listing(date)"
F_CANCEL == "cancel(reason)"
F_QTY == "qty(lot)"
F_PRICE == "min_price(NT)"
F_MINLOT == "min_lot(lot)"
F_MAXLOT == "max_lot(lot)"
F_DEPOSIT == "deposit(%)"
F_FEE == "fee(NT)"
F_NOTE == "note"

\* FIELD_LABELS, for the columns above (the table's other entries are result
\* columns of closed auctions).
FIELD_LABELS ==
    (F_CODE :> "code") @@ (F_NAME :> "name") @@ (F_OPEN :> "open") @@
    (F_MARKET :> "market") @@ (F_ISSUE :> "issue") @@ (F_METHOD :> "method") @@
    (F_BROKER :> "broker") @@ (F_BIDSTART :> "bid_start") @@ (F_BIDEND :> "bid_end") @@
    (F_LISTING :> "listing") @@ (F_CANCEL :> "cancel") @@ (F_QTY :> "qty") @@
    (F_PRICE :> "min_price") @@ (F_MINLOT :> "min_lot") @@ (F_MAXLOT :> "max_lot") @@
    (F_DEPOSIT :> "deposit") @@ (F_FEE :> "fee")

\* FIELD_LABELS.get(field, field)
Label(field) == IF field \in DOMAIN FIELD_LABELS THEN FIELD_LABELS[field] ELSE field

-----------------------------------------------------------------------------
(* Dates: datetime.date as <<year, month, day>>, None as <<>>               *)

None == <<>>

DigitChars == "0123456789"

\* int() of one decimal digit, as a table.
DigitTable ==
    [c \in {CharAt(DigitChars, i) : i \in 1..10} |->
        (CHOOSE i \in 1..10 : CharAt(DigitChars, i) = c) - 1]

IsDigit(c) == c \in DOMAIN DigitTable

DigitValue(c) == DigitTable[c]

AllDigits(s) == Len(s) > 0 /\ \A i \in 1..Len(s) : IsDigit(CharAt(s, i))

\* The value of a non-empty string of decimal digits.
RECURSIVE DecimalValue(_)
DecimalValue(s) ==
    IF Len(s) = 0 THEN 0
    ELSE 10 * DecimalValue(SubSeq(s, 1, Len(s) - 1)) + DigitValue(CharAt(s, Len(s)))

\* str.split(sep) for a one-character separator.
RECURSIVE split(_, _)
split(s, sep) ==
    IF \A i \in 1..Len(s) : CharAt(s, i) # sep THEN <<s>>
    ELSE LET i == CHOOSE j \in 1..Len(s) :
                      CharAt(s, j) = sep /\ \A k \in 1..(j - 1) : CharAt(s, k) # sep
         IN  <<SubSeq(s, 1, i - 1)>> \o split(SubSeq(s, i + 1, Len(s)), sep)

IsLeap(y) == (y % 4 = 0 /\ y % 100 # 0) \/ y % 400 = 0

DaysInMonth(y, m) ==
    IF m = 2 THEN (IF IsLeap(y) THEN 29 ELSE 28)
    ELSE IF m \in {4, 6, 9, 11} THEN 30 ELSE 31

\* datetime.date(y, m, d) accepts exactly these (MINYEAR 1, MAXYEAR 9999).
ValidDate(y, m, d) ==
    /\ y \in 1..9999
    /\ m \in 1..12
    /\ d \in 1..DaysInMonth(y, m)

\* Mutant of PlusOneDay: the day is not added, the end is the last day itself.
PlusNoDay(dt) == dt

\* date + timedelta(days=1); <<>> stands for the OverflowError past date.max.
PlusOneDay(dt) ==
    LET y == dt[1]
        m == dt[2]
        d == dt[3]
    IN  IF d < DaysInMonth(y, m) THEN <<y, m, d + 1>>
        ELSE IF m < 12 THEN <<y, m + 1, 1>>
        ELSE IF y < 9999 THEN <<y + 1, 1, 1>>
        ELSE <<>>

\* A decimal number zero-padded to a width, as %Y (4), %m and %d (2) print it.
RECURSIVE Decimal(_, _)
Decimal(n, width) ==
    IF width = 0 THEN ""
    ELSE Decimal(n \div 10, width - 1) \o CharAt(DigitChars, (n % 10) + 1)

\* date.isoformat(): YYYY-MM-DD
isoformat(dt) == Decimal(dt[1], 4) \o "-" \o Decimal(dt[2], 2) \o "-" \o Decimal(dt[3], 2)

\* date.strftime("%Y%m%d")
ics_date(dt) == Decimal(dt[1], 4) \o Decimal(dt[2], 2) \o Decimal(dt[3], 2)

\* date.strftime("%Y/%m/%d")
SlashDate(dt) == Decimal(dt[1], 4) \o "/" \o Decimal(dt[2], 2) \o "/" \o Decimal(dt[3], 2)

\* What strptime's %m and %d accept: one digit 1-9, or two digits not "00"
\* (%d also a space and one digit 1-9); the range is checked by ValidDate.
StrptimeMonth(s) ==
    \/ Len(s) = 1 /\ AllDigits(s) /\ s # "0"
    \/ Len(s) = 2 /\ AllDigits(s) /\ DecimalValue(s) \in 1..12

StrptimeDay(s) ==
    \/ Len(s) = 1 /\ AllDigits(s) /\ s # "0"
    \/ Len(s) = 2 /\ AllDigits(s) /\ DecimalValue(s) \in 1..31
    \/ Len(s) = 2 /\ CharAt(s, 1) = " " /\ IsDigit(CharAt(s, 2)) /\ CharAt(s, 2) # "0"

\* datetime.strptime(s, "%Y<sep>%m<sep>%d").date(), None for the ValueError.
strptime_ymd(s, sep) ==
    LET parts == split(s, sep)
    IN  IF /\ Len(parts) = 3
           /\ Len(parts[1]) = 4 /\ AllDigits(parts[1])
           /\ StrptimeMonth(parts[2])
           /\ StrptimeDay(parts[3])
        THEN LET y == DecimalValue(parts[1])
                 m == DecimalValue(parts[2])
                 d == DecimalValue(lstrip(parts[3]))
             IN  IF ValidDate(y, m, d) THEN <<y, m, d>> ELSE None
        ELSE None

\* generate_calendar.parse_date
parse_date(date_str) ==
    IF date_str = "" \/ strip(date_str) = "0" THEN None
    ELSE strptime_ymd(strip(date_str), "/")

-----------------------------------------------------------------------------
(* generate_calendar.py: row_key, make_uid, build_calendar                 *)
(*                                                                         *)
(* Literals of the source written as stand-ins: the cancelled tag          *)
(* (U+3010 U+5DF2 U+53D6 U+6D88 U+3011) is "[cancelled]"; the emoji and    *)
(* label that open a summary are "#bid|", "#open|" and "#list|"; the       *)
(* full-width parentheses are "(" and ")"; the labels of the description   *)
(* are English words.                                                      *)

row_key(row) == strip(Get(row, F_CODE)) \o "-" \o strip(Get(row, F_OPEN))

\* hashlib.md5(raw).hexdigest(), taken as collision-free: the digest is left
\* uninterpreted and written as the text it was computed from.
md5_hexdigest(raw) == "md5<" \o raw \o ">"

\* Mutant of make_uid: the suffix is left out of the hashed text.
make_uid_no_suffix(row, suffix) ==
    md5_hexdigest(row[F_CODE] \o "-" \o row[F_OPEN] \o "-") \o "@twse-auction"

\* Mutant of make_uid: the security name is hashed as well.
make_uid_with_name(row, suffix) ==
    md5_hexdigest(row[F_CODE] \o "-" \o row[F_OPEN] \o "-" \o Get(row, F_NAME) \o "-" \o suffix)
        \o "@twse-auction"

\* make_uid reads row[...] (not row.get): defined only when MakeUidRaises is false.
make_uid(row, suffix) ==
    md5_hexdigest(row[F_CODE] \o "-" \o row[F_OPEN] \o "-" \o suffix) \o "@twse-auction"

\* The KeyError of make_uid.
MakeUidRaises(row) == F_CODE \notin DOMAIN row \/ F_OPEN \notin DOMAIN row

\* re.sub(",", "", s)
RECURSIVE clean_number(_)
clean_number(s) ==
    IF Len(s) = 0 THEN s
    ELSE (IF CharAt(s, 1) = "," THEN "" ELSE CharAt(s, 1)) \o clean_number(SubSeq(s, 2, Len(s)))

\* "\n".join(parts)
RECURSIVE JoinLines(_)
JoinLines(parts) ==
    IF Len(parts) = 0 THEN ""
    ELSE IF Len(parts) = 1 THEN parts[1]
    ELSE parts[1] \o "\n" \o JoinLines(Tail(parts))

CANCELLED_TAG == "[cancelled]"

\* The description build_calendar gives every event of one row.
CalendarDescription(row) ==
    LET cancelled    == strip(Get(row, F_CANCEL))
        open_date    == parse_date(Get(row, F_OPEN))
        listing_date == parse_date(Get(row, F_LISTING))
    IN  JoinLines(
            << "code:" \o strip(Get(row, F_CODE)),
               "name:" \o strip(Get(row, F_NAME)),
               "market:" \o strip(Get(row, F_MARKET)),
               "issue:" \o strip(Get(row, F_ISSUE)),
               "method:" \o strip(Get(row, F_METHOD)),
               "broker:" \o strip(Get(row, F_BROKER)),
               "qty:" \o clean_number(Get(row, F_QTY)) \o " lot",
               "min_price:" \o clean_number(Get(row, F_PRICE)) \o " NT",
               "deposit:" \o strip(Get(row, F_DEPOSIT)) \o "%",
               "fee:" \o clean_number(Get(row, F_FEE)) \o " NT" >>
            \o (IF open_date # None THEN <<"open:" \o isoformat(open_date)>> ELSE <<>>)
            \o (IF listing_date # None THEN <<"listing:" \o isoformat(listing_date)>> ELSE <<>>)
            \o (IF cancelled # "" THEN <<"! " \o cancelled>> ELSE <<>>)
            \o <<"\n@ https://www.twse.com.tw/zh/announcement/auction.html">>)

\* Mutant of CalendarEvent: the cancel reason is tested without strip().
CalendarEventUntrimmed(row, suffix, label, dtstart, last_day, now) ==
    LET cancelled == Get(row, F_CANCEL)
    IN  [kind        |-> suffix,
         summary     |-> (IF cancelled # "" THEN CANCELLED_TAG ELSE "") \o label
                            \o strip(Get(row, F_NAME)) \o "(" \o strip(Get(row, F_CODE)) \o ")",
         dtstart     |-> dtstart,
         dtend       |-> PlusOneDay(last_day),
         description |-> CalendarDescription(row),
         dtstamp     |-> now,
         uid         |-> make_uid(row, suffix),
         status      |-> IF cancelled # "" THEN "CANCELLED" ELSE ""]

\* One Event() of build_calendar; status "" is an event without STATUS.
CalendarEvent(row, suffix, label, dtstart, last_day, now) ==
    LET cancelled == strip(Get(row, F_CANCEL))
    IN  [kind        |-> suffix,
         summary     |-> (IF cancelled # "" THEN CANCELLED_TAG ELSE "") \o label
                            \o strip(Get(row, F_NAME)) \o "(" \o strip(Get(row, F_CODE)) \o ")",
         dtstart     |-> dtstart,
         dtend       |-> PlusOneDay(last_day),
         description |-> CalendarDescription(row),
         dtstamp     |-> now,
         uid         |-> make_uid(row, suffix),
         status      |-> IF cancelled # "" THEN "CANCELLED" ELSE ""]

\* The events the loop body of build_calendar adds for one row, in order.
CalendarRowEvents(row, now) ==
    LET bid_start    == parse_date(Get(row, F_BIDSTART))
        bid_end      == parse_date(Get(row, F_BIDEND))
        open_date    == parse_date(Get(row, F_OPEN))
        listing_date == parse_date(Get(row, F_LISTING))
    IN  (IF bid_start # None /\ bid_end # None
         THEN <<CalendarEvent(row, "bid", "#bid|", bid_start, bid_end, now)>> ELSE <<>>)
        \o (IF open_date # None
            THEN <<CalendarEvent(row, "open", "#open|", open_date, open_date, now)>> ELSE <<>>)
        \o (IF listing_date # None
            THEN <<CalendarEvent(row, "list", "#list|", listing_date, listing_date, now)>>
            ELSE <<>>)

\* Whether the loop body raises for this row: the KeyError of make_uid, or the
\* OverflowError of date + timedelta(days=1), at the first event it builds.
CalendarRowRaises(row) ==
    LET bid_start    == parse_date(Get(row, F_BIDSTART))
        bid_end      == parse_date(Get(row, F_BIDEND))
        open_date    == parse_date(Get(row, F_OPEN))
        listing_date == parse_date(Get(row, F_LISTING))
        last_days    == (IF bid_start # None /\ bid_end # None THEN {bid_end} ELSE {})
                            \cup ({open_date, listing_date} \ {None})
    IN  /\ last_days # {}
        /\ MakeUidRaises(row) \/ \E d \in last_days : PlusOneDay(d) = <<>>

RECURSIVE CalendarEvents(_, _)
CalendarEvents(rows, now) ==
    IF rows = <<>> THEN <<>>
    ELSE CalendarRowEvents(Head(rows), now) \o CalendarEvents(Tail(rows), now)

\* build_calendar: the VEVENT components of the calendar, or the exception.
build_calendar(rows, now) ==
    IF \E i \in 1..Len(rows) : CalendarRowRaises(rows[i])
    THEN [raised |-> TRUE, events |-> <<>>]
    ELSE [raised |-> FALSE, events |-> CalendarEvents(rows, now)]

-----------------------------------------------------------------------------
(* scripts/generate_twse_auction_calendar.py: build_events, render_ics     *)
(*                                                                         *)
(* Stand-ins: the full-width dash U+FF0D of the sentinel set is "=", the   *)
(* event types of EVENT_DATE_FIELDS are "bid-start", "bid-close", "open"   *)
(* and "listing", the tag that opens a summary is "[TWSE]", the labels of  *)
(* the description are English words.                                      *)

\* "".join(pieces[lo..hi]), by halves.
RECURSIVE ConcatRange(_, _, _)
ConcatRange(pieces, lo, hi) ==
    IF lo > hi THEN ""
    ELSE IF lo = hi THEN pieces[lo]
    ELSE LET mid == (lo + hi) \div 2
         IN  ConcatRange(pieces, lo, mid) \o ConcatRange(pieces, mid + 1, hi)

\* The loop of str.replace: the text from start on, matches being the places
\* where old occurs; an occurrence that begins inside a replaced one is skipped.
RECURSIVE ReplaceFrom(_, _, _, _, _)
ReplaceFrom(s, start, matches, old, new) ==
    LET ahead == {m \in matches : m >= start}
    IN  IF ahead = {} THEN SubSeq(s, start, Len(s))
        ELSE LET m == CHOOSE x \in ahead : \A y \in ahead : x <= y
             IN  SubSeq(s, start, m - 1) \o new
                    \o ReplaceFrom(s, m + Len(old), ahead \ {m}, old, new)

\* str.replace(old, new) for a non-empty old.
Replace(s, old, new) ==
    ReplaceFrom(s, 1,
        {i \in 1..(Len(s) - Len(old) + 1) : SubSeq(s, i, i + Len(old) - 1) = old}, old, new)

\* parse_twse_date
parse_twse_date(value) ==
    LET cleaned == strip(value)
    IN  IF cleaned = "" \/ cleaned \in {"0", "-", "--", "="} THEN None
        ELSE IF strptime_ymd(cleaned, "/") # None THEN strptime_ymd(cleaned, "/")
        ELSE strptime_ymd(cleaned, "-")

\* Mutant of ics_escape: the backslash is doubled last, not first.
ics_escape_backslash_last(text) ==
    Replace(Replace(Replace(Replace(Replace(Replace(text,
        ";", "\\;"), ",", "\\,"), "\r\n", "\n"), "\r", "\n"), "\n", "\\n"), "\\", "\\\\")

\* ics_escape
ics_escape(text) ==
    Replace(Replace(Replace(Replace(Replace(Replace(text,
        "\\", "\\\\"), ";", "\\;"), ",", "\\,"), "\r\n", "\n"), "\r", "\n"), "\n", "\\n")

\* len(ch.encode("utf-8"))
Utf8Len(ch) ==
    IF Ord(ch) < 128 THEN 1
    ELSE IF Ord(ch) < 2048 THEN 2
    ELSE IF Ord(ch) < 65536 THEN 3
    ELSE 4

\* The loop of fold_ical_line while it fills one part: the index of the last
\* character of the part that holds line[i - 1], current_len octets long so far.
RECURSIVE PartEnd(_, _, _, _)
PartEnd(line, i, current_len, limit) ==
    IF i > Len(line) THEN i - 1
    ELSE LET ch_len == Utf8Len(CharAt(line, i))
         IN  IF current_len + ch_len > limit THEN i - 1
             ELSE PartEnd(line, i + 1, current_len + ch_len, limit)

\* The parts the loop of fold_ical_line cuts line[start..] into: a part takes
\* its first character whatever its length.
RECURSIVE FoldParts(_, _, _)
FoldParts(line, start, limit) ==
    IF start > Len(line) THEN <<>>
    ELSE LET last == PartEnd(line, start + 1, Utf8Len(CharAt(line, start)), limit)
         IN  <<SubSeq(line, start, last)>> \o FoldParts(line, last + 1, limit)

\* fold_ical_line: the physical lines of one content line.
fold_ical_line(line, limit) ==
    IF line = "" THEN <<"">>
    ELSE LET parts == FoldParts(line, 1, limit)
         IN  [k \in 1..Len(parts) |-> IF k = 1 THEN parts[1] ELSE " " \o parts[k]]

\* The default of fold_ical_line's limit.
FOLD_LIMIT == 75

\* The columns the feed declares ("fields" of the payload).
FeedFields ==
    {F_OPEN, F_NAME, F_CODE, F_MARKET, F_ISSUE, F_METHOD, F_BIDSTART, F_BIDEND,
     F_QTY, F_PRICE, F_MINLOT, F_MAXLOT, F_DEPOSIT, F_FEE, F_LISTING, F_BROKER, F_CANCEL}

\* normalize_row: every declared column, trimmed, "" where the row is short.
normalize_row(fields, raw_row) ==
    [key \in fields |-> IF key \in DOMAIN raw_row THEN strip(raw_row[key]) ELSE ""]

\* hashlib.sha1(source).hexdigest(), taken as collision-free and left
\* uninterpreted.
sha1_hexdigest(source) == "sha1<" \o source \o ">"

stable_uid(source) == sha1_hexdigest(source) \o "@twse-auction-calendar"

value_or_dash(row, key) == OrDash(strip(Get(row, key)))

EVENT_DATE_FIELDS ==
    << <<F_BIDSTART, "bid-start">>, <<F_BIDEND, "bid-close">>,
       <<F_OPEN, "open">>, <<F_LISTING, "listing">> >>

\* One CalendarEvent of build_events.  kind is not a field of the dataclass: it
\* records which entry of EVENT_DATE_FIELDS the event came from.
BuildEvent(row, date_field, event_type, event_date) ==
    LET security_name == value_or_dash(row, F_NAME)
        security_code == value_or_dash(row, F_CODE)
        market        == value_or_dash(row, F_MARKET)
        issue_type    == value_or_dash(row, F_ISSUE)
    IN  [kind        |-> date_field,
         event_date  |-> event_date,
         summary     |-> "[TWSE] " \o security_name \o "(" \o security_code \o ") " \o event_type,
         description |-> JoinLines(
            << "event:" \o event_type,
               "name:" \o security_name,
               "code:" \o security_code,
               "market:" \o market,
               "issue:" \o issue_type,
               "method:" \o value_or_dash(row, F_METHOD),
               "qty(lot):" \o value_or_dash(row, F_QTY),
               "min_price(NT):" \o value_or_dash(row, F_PRICE),
               "min_lot(lot):" \o value_or_dash(row, F_MINLOT),
               "max_lot(lot):" \o value_or_dash(row, F_MAXLOT),
               "broker:" \o value_or_dash(row, F_BROKER),
               "bid_start:" \o value_or_dash(row, F_BIDSTART),
               "bid_end:" \o value_or_dash(row, F_BIDEND),
               "open:" \o value_or_dash(row, F_OPEN),
               "listing:" \o value_or_dash(row, F_LISTING),
               "source:https://www.twse.com.tw/zh/announcement/auction.html" >>),
         uid         |-> stable_uid(security_code \o "|" \o security_name \o "|" \o event_type
                            \o "|" \o isoformat(event_date) \o "|" \o market
                            \o "|" \o issue_type)]

\* The events of one raw row, in the order of EVENT_DATE_FIELDS.
RECURSIVE BuildRowEvents(_, _)
BuildRowEvents(row, k) ==
    IF k > Len(EVENT_DATE_FIELDS) THEN <<>>
    ELSE LET date_field == EVENT_DATE_FIELDS[k][1]
             event_date == parse_twse_date(Get(row, date_field))
         IN  (IF event_date = None THEN <<>>
              ELSE <<BuildEvent(row, date_field, EVENT_DATE_FIELDS[k][2], event_date)>>)
             \o BuildRowEvents(row, k + 1)

RECURSIVE build_events(_, _)
build_events(fields, rows) ==
    IF rows = <<>> THEN <<>>
    ELSE BuildRowEvents(normalize_row(fields, Head(rows)), 1)
            \o build_events(fields, Tail(rows))

\* The deduplication of fetch_all_events: a dict by uid keeps the place of the
\* first event of a uid and the value of the last.
RECURSIVE UniqueByUid(_)
UniqueByUid(events) ==
    IF events = <<>> THEN <<>>
    ELSE LET last == events[Len(events)]
             init == UniqueByUid(SubSeq(events, 1, Len(events) - 1))
         IN  IF \E i \in 1..Len(init) : init[i].uid = last.uid
             THEN [i \in 1..Len(init) |-> IF init[i].uid = last.uid THEN last ELSE init[i]]
             ELSE Append(init, last)

\* (e.event_date, e.summary, e.uid) < (f.event_date, f.summary, f.uid)
DateLess(a, b) ==
    \/ a[1] < b[1]
    \/ a[1] = b[1] /\ a[2] < b[2]
    \/ a[1] = b[1] /\ a[2] = b[2] /\ a[3] < b[3]

SortKeyLess(e, f) ==
    \/ DateLess(e.event_date, f.event_date)
    \/ e.event_date = f.event_date /\ StrLess(e.summary, f.summary)
    \/ e.event_date = f.event_date /\ e.summary = f.summary /\ StrLess(e.uid, f.uid)

\* Mutant of SortedEvents: the events are rendered in the order given.
SortedEventsUnsorted(events) == events

\* sorted(events, key=...): stable, ascending.
RECURSIVE SortedEvents(_)
SortedEvents(events) ==
    IF events = <<>> THEN <<>>
    ELSE LET init == SortedEvents(SubSeq(events, 1, Len(events) - 1))
             last == events[Len(events)]
             n    == Cardinality({i \in 1..Len(init) : ~SortKeyLess(last, init[i])})
         IN  SubSeq(init, 1, n) \o <<last>> \o SubSeq(init, n + 1, Len(init))

\* Concatenation of a sequence of sequences.
RECURSIVE Flatten(_)
Flatten(ss) == IF ss = <<>> THEN <<>> ELSE Head(ss) \o Flatten(Tail(ss))

\* The lines add_line appends for a list of raw lines.
AddLines(raws) == Flatten([k \in 1..Len(raws) |-> fold_ical_line(raws[k], FOLD_LIMIT)])

\* The block of one event in render_ics.
RenderEvent(event, dtstamp) ==
    AddLines(<< "BEGIN:VEVENT",
                "UID:" \o event.uid,
                "DTSTAMP:" \o dtstamp,
                "DTSTART;VALUE=DATE:" \o ics_date(event.event_date),
                "DTEND;VALUE=DATE:" \o ics_date(PlusOneDay(event.event_date)),
                "SUMMARY:" \o ics_escape(event.summary),
                "DESCRIPTION:" \o ics_escape(event.description),
                "URL:https://www.twse.com.tw/zh/announcement/auction.html",
                "STATUS:CONFIRMED",
                "TRANSP:TRANSPARENT",
                "END:VEVENT" >>)

\* "\r\n".join(lines) + "\r\n"
JoinCRLF(lines) == ConcatRange([k \in 1..Len(lines) |-> lines[k] \o "\r\n"], 1, Len(lines))

\* The event blocks render_ics emits, in its order.
RenderBlocks(events, dtstamp) ==
    LET ordered == SortedEvents(events)
    IN  [k \in 1..Len(ordered) |-> RenderEvent(ordered[k], dtstamp)]

\* lines of render_ics when it returns.
RenderLines(events, dtstamp) ==
    AddLines(<< "BEGIN:VCALENDAR", "VERSION:2.0",
                "PRODID:-//TWSE Auction Calendar//EN", "CALSCALE:GREGORIAN",
                "METHOD:PUBLISH", "X-WR-CALNAME:TWSE auctions",
                "X-WR-CALDESC:generated from the TWSE auction announcements",
                "X-WR-TIMEZONE:Asia/Taipei" >>)
    \o Flatten(RenderBlocks(events, dtstamp))
    \o AddLines(<<"END:VCALENDAR">>)

\* Whether render_ics raises: the OverflowError of event_date + 1 day.
RenderRaises(events) == \E k \in 1..Len(events) : PlusOneDay(events[k].event_date) = <<>>

\* render_ics: the calendar text, "" when it raises.
render_ics(events, dtstamp) ==
    IF RenderRaises(events) THEN "" ELSE JoinCRLF(RenderLines(events, dtstamp))

-----------------------------------------------------------------------------
(* scripts/twse_auction_calendar.py: rows_to_ics_events, build_ics_calendar *)
(*                                                                         *)
(* Stand-ins: the title that opens a summary is "auction:", the suffixes   *)
(* of the four kinds are "bid-start", "bid-end", "open-day" and            *)
(* "allot-day", the labels of the description are English words.  A raw    *)
(* row is positional in the source; here a position is written as the name *)
(* of its column, and a row too short for a position lacks that name.      *)

\* int(x) of the text x: <<>> for the ValueError, <<n>> otherwise.  Surrounding
\* whitespace, one sign and single underscores between digits are accepted.
int(x) ==
    LET t      == strip(x)
        signed == Len(t) > 0 /\ CharAt(t, 1) \in {"+", "-"}
        body   == IF signed THEN SubSeq(t, 2, Len(t)) ELSE t
        digits == Replace(body, "_", "")
        ok     == /\ Len(body) > 0
                  /\ IsDigit(CharAt(body, 1)) /\ IsDigit(CharAt(body, Len(body)))
                  /\ \A i \in 1..Len(body) : IsDigit(CharAt(body, i)) \/ CharAt(body, i) = "_"
                  /\ \A i \in 1..(Len(body) - 1) : SubSeq(body, i, i + 1) # "__"
    IN  IF ~ok THEN <<>>
        ELSE IF signed /\ CharAt(t, 1) = "-" THEN <<0 - DecimalValue(digits)>>
        ELSE <<DecimalValue(digits)>>

\* _parse_twse_date
_parse_twse_date(s) ==
    LET t     == strip(s)
        parts == split(t, "/")
    IN  IF t = "" \/ t \in {"0", "-", "--", "N/A"} THEN None
        ELSE IF Len(parts) # 3 \/ \E i \in 1..3 : int(parts[i]) = <<>> THEN None
        ELSE LET y == int(parts[1])[1]
                 m == int(parts[2])[1]
                 d == int(parts[3])[1]
             IN  IF ValidDate(y, m, d) THEN <<y, m, d>> ELSE None

\* g(i) of fetch_auction_rows
g(r, field) == strip(Get(r, field))

\* The AuctionRow fetch_auction_rows builds from one raw row.
AuctionRow(r) ==
    [open_date        |-> _parse_twse_date(g(r, F_OPEN)),
     name             |-> g(r, F_NAME),
     code             |-> g(r, F_CODE),
     market           |-> g(r, F_MARKET),
     issue_type       |-> g(r, F_ISSUE),
     auction_method   |-> g(r, F_METHOD),
     bid_start        |-> _parse_twse_date(g(r, F_BIDSTART)),
     bid_end          |-> _parse_twse_date(g(r, F_BIDEND)),
     quantity_lot     |-> g(r, F_QTY),
     min_bid_price    |-> g(r, F_PRICE),
     min_bid_lot      |-> g(r, F_MINLOT),
     max_award_lot    |-> g(r, F_MAXLOT),
     margin_rate_pct  |-> g(r, F_DEPOSIT),
     handling_fee     |-> g(r, F_FEE),
     allotment_date   |-> _parse_twse_date(g(r, F_LISTING)),
     lead_underwriter |-> g(r, F_BROKER),
     cancel_reason    |-> g(r, F_CANCEL)]

\* _ics_escape_text
_ics_escape_text(s) ==
    Replace(Replace(Replace(Replace(Replace(Replace(s,
        "\\", "\\\\"), "\r\n", "\n"), "\r", "\n"), "\n", "\\n"), ";", "\\;"), ",", "\\,")

\* The characters a folded line may hold.
FOLD_CHARS == 73

\* The loop of _ics_fold_line: the pieces appended to out, cur being the rest.
\* Mutant of FoldPieces: the rest of the line is carried on without the space.
RECURSIVE FoldPiecesNoSpace(_)
FoldPiecesNoSpace(cur) ==
    IF Len(cur) > FOLD_CHARS
    THEN <<SubSeq(cur, 1, FOLD_CHARS)>>
            \o FoldPiecesNoSpace(SubSeq(cur, FOLD_CHARS + 1, Len(cur)))
    ELSE <<cur>>

RECURSIVE FoldPieces(_)
FoldPieces(cur) ==
    IF Len(cur) > FOLD_CHARS
    THEN <<SubSeq(cur, 1, FOLD_CHARS)>>
            \o FoldPieces(" " \o SubSeq(cur, FOLD_CHARS + 1, Len(cur)))
    ELSE <<cur>>

\* "\r\n".join(out)
JoinWithCRLF(out) ==
    ConcatRange([k \in 1..Len(out) |-> IF k = 1 THEN out[k] ELSE "\r\n" \o out[k]], 1, Len(out))

\* _ics_fold_line
_ics_fold_line(line) == IF Len(line) <= FOLD_CHARS THEN line ELSE JoinWithCRLF(FoldPieces(line))

\* _event_uid
_event_uid(prefix, row, when, kind) ==
    prefix \o "-" \o kind \o "-" \o (IF row.code # "" THEN row.code ELSE "UNKNOWN")
        \o "-" \o ics_date(when) \o "@twse.com.tw"

\* _build_all_day_event: the lines of one VEVENT; status "" is status=None.
_build_all_day_event(uid, dtstamp, date, summary, description, url, status) ==
    << "BEGIN:VEVENT",
       "UID:" \o _ics_escape_text(uid),
       "DTSTAMP:" \o dtstamp,
       "DTSTART;VALUE=DATE:" \o ics_date(date),
       "DTEND;VALUE=DATE:" \o ics_date(PlusOneDay(date)),
       "SUMMARY:" \o _ics_escape_text(summary),
       "DESCRIPTION:" \o _ics_escape_text(description),
       "URL:" \o _ics_escape_text(url),
       "TRANSP:TRANSPARENT" >>
    \o (IF status # "" THEN <<"STATUS:" \o status>> ELSE <<>>)
    \o <<"END:VEVENT">>

\* _row_common_description
_row_common_description(row) ==
    JoinLines(
        << "name:" \o row.name,
           "code:" \o row.code,
           "market:" \o row.market,
           "issue:" \o row.issue_type,
           "method:" \o row.auction_method,
           "qty(lot):" \o row.quantity_lot,
           "min_price(NT):" \o row.min_bid_price,
           "min_lot(lot):" \o row.min_bid_lot,
           "max_lot(lot):" \o row.max_award_lot,
           "deposit(%):" \o row.margin_rate_pct,
           "fee(NT):" \o row.handling_fee,
           "broker:" \o row.lead_underwriter >>
        \o (IF row.cancel_reason # "" THEN <<"cancel:" \o row.cancel_reason>> ELSE <<>>)
        \o <<"source:https://www.twse.com.tw/zh/announcement/auction.html">>)

\* The four calls of add() in rows_to_ics_events: kind, date, suffix.
RowAdds(row) ==
    << <<"BIDSTART", row.bid_start, "bid-start">>,
       <<"BIDEND", row.bid_end, "bid-end">>,
       <<"OPEN", row.open_date, "open-day">>,
       <<"ALLOT", row.allotment_date, "allot-day">> >>

\* add() of rows_to_ics_events for a date that is not None.  kind is kept next
\* to the lines to tell which call of add() made them.
AddEvent(prefix, row, dtstamp, kind, when, suffix) ==
    LET common_desc == _row_common_description(row)
        bid_range   == IF row.bid_start # None /\ row.bid_end # None
                       THEN "bid-period:" \o SlashDate(row.bid_start)
                                \o " ~ " \o SlashDate(row.bid_end)
                       ELSE ""
    IN  [kind  |-> kind,
         lines |-> _build_all_day_event(
                        _event_uid(prefix, row, when, kind),
                        dtstamp,
                        when,
                        "auction:" \o row.name \o "(" \o row.code \o ") " \o suffix,
                        IF bid_range # "" THEN bid_range \o "\n\n" \o common_desc
                        ELSE common_desc,
                        "https://www.twse.com.tw/zh/announcement/auction.html",
                        IF row.cancel_reason # "" THEN "CANCELLED" ELSE "")]

\* The events of one AuctionRow, in the order of the calls of add().
RowIcsEvents(prefix, row, dtstamp) ==
    LET adds  == RowAdds(row)
        taken == {k \in 1..Len(adds) : adds[k][2] # None}
        nth   == [n \in 1..Cardinality(taken) |->
                    CHOOSE k \in taken : Cardinality({j \in taken : j < k}) = n - 1]
    IN  [n \in 1..Cardinality(taken) |->
            AddEvent(prefix, row, dtstamp, adds[nth[n]][1], adds[nth[n]][2], adds[nth[n]][3])]

RECURSIVE AllIcsEvents(_, _, _)
AllIcsEvents(prefix, rows, dtstamp) ==
    IF rows = <<>> THEN <<>>
    ELSE RowIcsEvents(prefix, Head(rows), dtstamp) \o AllIcsEvents(prefix, Tail(rows), dtstamp)

\* rows_to_ics_events: the events, or the OverflowError of date + 1 day.
rows_to_ics_events(prefix, rows, dtstamp) ==
    IF \E i \in 1..Len(rows) : \E k \in 1..4 :
            RowAdds(rows[i])[k][2] # None /\ PlusOneDay(RowAdds(rows[i])[k][2]) = <<>>
    THEN [raised |-> TRUE, events |-> <<>>]
    ELSE [raised |-> FALSE, events |-> AllIcsEvents(prefix, rows, dtstamp)]

\* lines of build_ics_calendar: header + events + footer.
IcsCalendarLines(cal_name, events) ==
    << "BEGIN:VCALENDAR", "VERSION:2.0", "CALSCALE:GREGORIAN", "METHOD:PUBLISH",
       "PRODID:-//twse-auction-calendar//twse-auction-calendar//ZH-HANT",
       "X-WR-CALNAME:" \o _ics_escape_text(cal_name),
       "X-WR-TIMEZONE:Asia/Taipei",
       "X-PUBLISHED-TTL:PT6H" >>
    \o events \o <<"END:VCALENDAR">>

\* "\r\n".join(folded) + "\r\n" of build_ics_calendar
FoldedText(lines) ==
    JoinWithCRLF([k \in 1..Len(lines) |-> _ics_fold_line(lines[k])]) \o "\r\n"

\* build_ics_calendar
build_ics_calendar(cal_name, events) == FoldedText(IcsCalendarLines(cal_name, events))

-----------------------------------------------------------------------------
(* diff_data                                                               *)

\* Mutant of FieldDiffs: the values are compared as stored, without strip().
RECURSIVE FieldDiffsUnstripped(_, _, _)
FieldDiffsUnstripped(old_row, new_row, all_fields) ==
    IF all_fields = <<>> THEN <<>>
    ELSE LET field   == Head(all_fields)
             old_val == Get(old_row, field)
             new_val == Get(new_row, field)
             rest    == FieldDiffsUnstripped(old_row, new_row, Tail(all_fields))
         IN  IF old_val # new_val
             THEN <<<<Label(field), old_val, new_val>>>> \o rest
             ELSE rest

\* The (label, old, new) tuples of one key, in sorted field order.
RECURSIVE FieldDiffs(_, _, _)
FieldDiffs(old_row, new_row, all_fields) ==
    IF all_fields = <<>> THEN <<>>
    ELSE LET field   == Head(all_fields)
             old_val == strip(Get(old_row, field))
             new_val == strip(Get(new_row, field))
             rest    == FieldDiffs(old_row, new_row, Tail(all_fields))
         IN  IF old_val # new_val
             THEN <<<<Label(field), old_val, new_val>>>> \o rest
             ELSE rest

\* Mutant of ChangedOf: a common key is listed also when no field differs.
RECURSIVE ChangedOfEveryKey(_, _, _)
ChangedOfEveryKey(om, nm, keys) ==
    IF keys = <<>> THEN <<>>
    ELSE LET k     == Head(keys)
             diffs == FieldDiffs(om[k], nm[k], sorted(DOMAIN om[k] \cup DOMAIN nm[k]))
         IN  <<<<nm[k], diffs>>>> \o ChangedOfEveryKey(om, nm, Tail(keys))

RECURSIVE ChangedOf(_, _, _)
ChangedOf(om, nm, keys) ==
    IF keys = <<>> THEN <<>>
    ELSE LET k     == Head(keys)
             diffs == FieldDiffs(om[k], nm[k], sorted(DOMAIN om[k] \cup DOMAIN nm[k]))
             rest  == ChangedOf(om, nm, Tail(keys))
         IN  IF diffs # <<>> THEN <<<<nm[k], diffs>>>> \o rest ELSE rest

\* Mutant of diff_data: added lists every new key, also those the old map has.
diff_data_added_all(om, nm) ==
    [added   |-> RowsOf(nm, sorted(DOMAIN nm)),
     removed |-> RowsOf(om, sorted(DOMAIN om \ DOMAIN nm)),
     changed |-> ChangedOf(om, nm, sorted(DOMAIN om \cap DOMAIN nm))]

diff_data(om, nm) ==
    LET old_keys == DOMAIN om
        new_keys == DOMAIN nm
    IN  [added   |-> RowsOf(nm, sorted(new_keys \ old_keys)),
         removed |-> RowsOf(om, sorted(old_keys \ new_keys)),
         changed |-> ChangedOf(om, nm, sorted(old_keys \cap new_keys))]

-----------------------------------------------------------------------------
(* load_snapshot, send_discord_notification                                *)

\* {row_key(r): r for r in rows}: a later row replaces an earlier one of its key.
RECURSIVE KeyedRows(_)
KeyedRows(rows) ==
    IF rows = <<>> THEN <<>>
    ELSE LET r    == rows[Len(rows)]
             init == KeyedRows(SubSeq(rows, 1, Len(rows) - 1))
         IN  (row_key(r) :> r) @@ init

\* Mutant of load_snapshot: the first row of a key is kept, not the last.
load_snapshot_first_row(file) ==
    IF file = <<>> THEN <<>>
    ELSE LET rows == file[1]
             keys == {row_key(rows[i]) : i \in 1..Len(rows)}
         IN  [k \in keys |->
                 rows[CHOOSE i \in 1..Len(rows) :
                         /\ row_key(rows[i]) = k
                         /\ \A j \in 1..(i - 1) : row_key(rows[j]) # k]]

\* load_snapshot on the file as save_snapshot left it, {} when there is none.
load_snapshot(file) == IF file = <<>> THEN <<>> ELSE KeyedRows(file[1])

\* Mutant of save_snapshot: one row per key is written, not the fetched list.
save_snapshot_keyed(rows) ==
    LET m == KeyedRows(rows) IN <<RowsOf(m, sorted(DOMAIN m))>>

\* save_snapshot: the file holds the list of rows as given.
save_snapshot(rows) == <<rows>>

\* Mutant of HasPriorSnapshot: the diff is taken on the first run too.
HasPriorSnapshotAlways(om) == TRUE

\* "if old_map:" in main: an empty dict is false.
HasPriorSnapshot(om) == om # <<>>

\* The embed of an added row ("+new|" stands for the emoji and label of the title).
AddedEmbed(row) ==
    LET bid_start == strip(Get(row, F_BIDSTART))
        qty       == strip(Get(row, F_QTY))
        min_price == strip(Get(row, F_PRICE))
    IN  [title  |-> "+new|" \o strip(Get(row, F_NAME)) \o "(" \o strip(Get(row, F_CODE)) \o ")",
         color  |-> "22C55E",
         fields |-> << <<"issue", OrDash(strip(Get(row, F_ISSUE)))>>,
                       <<"market", OrDash(strip(Get(row, F_MARKET)))>>,
                       <<"broker", OrDash(strip(Get(row, F_BROKER)))>>,
                       <<"bid_period", IF bid_start # ""
                                       THEN bid_start \o " ~ " \o strip(Get(row, F_BIDEND))
                                       ELSE "-">>,
                       <<"open", OrDash(strip(Get(row, F_OPEN)))>>,
                       <<"listing", OrDash(strip(Get(row, F_LISTING)))>>,
                       <<"qty", IF qty # "" THEN qty \o " lot" ELSE "-">>,
                       <<"min_price", IF min_price # "" THEN min_price \o " NT" ELSE "-">> >>]

\* The embed of a changed row: one field per (label, old, new) tuple.
ChangedEmbed(entry) ==
    LET row   == entry[1]
        diffs == entry[2]
    IN  [title  |-> "~upd|" \o strip(Get(row, F_NAME)) \o "(" \o strip(Get(row, F_CODE)) \o ")",
         color  |-> "3B82F6",
         fields |-> [i \in 1..Len(diffs) |->
                        <<diffs[i][1],
                          "~~" \o (IF diffs[i][2] # "" THEN diffs[i][2] ELSE "(empty)")
                              \o "~~ -> **"
                              \o (IF diffs[i][3] # "" THEN diffs[i][3] ELSE "(empty)")
                              \o "**">>]]

\* The embed of a removed row.
RemovedEmbed(row) ==
    [title       |-> "-del|" \o strip(Get(row, F_NAME)) \o "(" \o strip(Get(row, F_CODE)) \o ")",
     color       |-> "EF4444",
     description |-> "open:" \o (IF F_OPEN \in DOMAIN row THEN row[F_OPEN] ELSE "-")]

\* Discord accepts at most this many embeds in one message.
MAX_EMBEDS == 10

\* Mutant of Payloads: every payload carries "content".
RECURSIVE PayloadsAllWithContent(_, _, _)
PayloadsAllWithContent(embeds, i, summary) ==
    IF i >= Len(embeds) THEN <<>>
    ELSE LET hi    == IF i + MAX_EMBEDS < Len(embeds) THEN i + MAX_EMBEDS ELSE Len(embeds)
             batch == SubSeq(embeds, i + 1, hi)
         IN  <<[username |-> "TWSE", embeds |-> batch, content |-> summary]>>
             \o PayloadsAllWithContent(embeds, i + MAX_EMBEDS, summary)

\* The payloads posted for embeds[i..], i counted from 0; only the payload of
\* i = 0 carries "content".
RECURSIVE Payloads(_, _, _)
Payloads(embeds, i, summary) ==
    IF i >= Len(embeds) THEN <<>>
    ELSE LET hi    == IF i + MAX_EMBEDS < Len(embeds) THEN i + MAX_EMBEDS ELSE Len(embeds)
             batch == SubSeq(embeds, i + 1, hi)
             body  == [username |-> "TWSE", embeds |-> batch]
         IN  <<IF i = 0 THEN body @@ [content |-> summary] ELSE body>>
             \o Payloads(embeds, i + MAX_EMBEDS, summary)

\* send_discord_notification: the sequence of payloads posted to the webhook.
send_discord_notification(webhook_url, added, removed, changed) ==
    LET embeds  == [i \in 1..Len(added) |-> AddedEmbed(added[i])]
                     \o [i \in 1..Len(changed) |-> ChangedEmbed(changed[i])]
                     \o [i \in 1..Len(removed) |-> RemovedEmbed(removed[i])]
        summary == "added " \o ToString(Len(added)) \o " | changed " \o ToString(Len(changed))
                     \o " | removed " \o ToString(Len(removed))
    IN  IF webhook_url = "" \/ embeds = <<>> THEN <<>>
        ELSE Payloads(embeds, 0, summary)

-----------------------------------------------------------------------------
(* generate_calendar.main, run after run                                   *)

\* years = [current_year - 1, current_year, current_year + 1]
NumYears == 3

\* Runs of main in one behaviour.
MaxRuns == 2

RowA ==
    (F_CODE :> "2330") @@ (F_OPEN :> "2025/06/10") @@ (F_NAME :> "A") @@
    (F_BIDSTART :> "2025/06/03") @@ (F_BIDEND :> "2025/06/05") @@
    (F_LISTING :> "2025/06/20") @@ (F_CANCEL :> "")

\* RowA after an upstream edit of two fields that are not part of the key.
RowA2 == (F_NAME :> "B") @@ (F_CANCEL :> "withdrawn") @@ RowA

RowB ==
    (F_CODE :> "2317") @@ (F_OPEN :> "2025/07/01") @@ (F_NAME :> "C") @@
    (F_BIDSTART :> "-") @@ (F_BIDEND :> "") @@ (F_LISTING :> "0") @@ (F_CANCEL :> " ")

\* A row shorter than the field list: dict(zip(fields, row)) has no security code.
RowShort == (F_OPEN :> "2025/08/01") @@ (F_NAME :> "D")

\* What fetch_auction_data may return for each of the years ([] also stands
\* for a failed request).  RowA and RowA2 have the same key.
FetchResults ==
    << {<<>>, <<RowA>>, <<RowShort>>},
       {<<>>, <<RowA2, RowB>>},
       {<<>>, <<RowB>>, <<RowA>>} >>

\* datetime.now(UTC) at the time of build_calendar, as DTSTAMP prints it.
Now == "20261105T000000Z"

\* The variables of main, at rest.
MainIdle ==
    /\ pc = "idle"
    /\ run = 0
    /\ year_idx = 0
    /\ all_rows = <<>>
    /\ discord_webhook = ""
    /\ dispatches = <<>>
    /\ cal = <<>>
    /\ snapshot_file = <<>>
    /\ ics_file = <<>>
    /\ snapshot_at_start = <<>>

\* The variables of the event derivation, at rest.
EventsIdle ==
    /\ script = ""
    /\ ev_pc = "idle"
    /\ ev_rows = <<>>
    /\ ev_per_row = <<>>
    /\ ev_all = <<>>
    /\ ev_order = ""
    /\ ev_lines = <<>>
    /\ ev_text = ""
    /\ ev_text_alt = ""

\* No text function is being applied.
TextIdle ==
    /\ tx_fn = ""
    /\ tx_in = ""
    /\ tx_out = <<>>

\* generate_twse_auction_calendar.main is not running.
GenIdle ==
    /\ gen_pc = "idle"
    /\ gen_year = 0
    /\ gen_rows = <<>>
    /\ gen_events = <<>>
    /\ gen_file = <<>>
    /\ gen_exit = <<>>
    /\ fj_retries = 0
    /\ fj_attempt = 0
    /\ fj_trace = <<>>
    /\ fj_result = <<>>

Init ==
    /\ old_map = <<>>
    /\ new_map = <<>>
    /\ diff_out = <<>>
    /\ MainIdle
    /\ EventsIdle
    /\ TextIdle
    /\ GenIdle

StartRun ==
    /\ pc \in {"idle", "done", "exit1", "crashed"}
    /\ run < MaxRuns
    /\ run' = run + 1
    /\ pc' = "fetch"
    /\ year_idx' = 1
    /\ all_rows' = <<>>
    /\ discord_webhook' \in {"", "https://discord.com/api/webhooks/1"}
    /\ dispatches' = <<>>
    /\ cal' = <<>>
    /\ old_map' = <<>>
    /\ new_map' = <<>>
    /\ diff_out' = <<>>
    /\ snapshot_at_start' = snapshot_file
    /\ UNCHANGED <<snapshot_file, ics_file>>
    /\ UNCHANGED <<evVars, textVars, genVars>>

\* One turn of "for y in years": all_rows.extend(fetch_auction_data(y)).
Fetch ==
    /\ pc = "fetch"
    /\ \E rows \in FetchResults[year_idx] : all_rows' = all_rows \o rows
    /\ year_idx' = year_idx + 1
    /\ pc' = IF year_idx = NumYears THEN "check" ELSE "fetch"
    /\ UNCHANGED <<diffVars, run, discord_webhook, dispatches, cal, snapshot_file,
                   ics_file, snapshot_at_start>>
    /\ UNCHANGED <<evVars, textVars, genVars>>

\* "if not all_rows: sys.exit(1)"
ExitNoData ==
    /\ pc = "check"
    /\ all_rows = <<>>
    /\ pc' = "exit1"
    /\ UNCHANGED <<diffVars, run, year_idx, all_rows, discord_webhook, dispatches, cal,
                   snapshot_file, ics_file, snapshot_at_start>>
    /\ UNCHANGED <<evVars, textVars, genVars>>

\* load_snapshot, the new map, and behind "if old_map:" the diff and, when it
\* counts a change, send_discord_notification.
CompareAndNotify ==
    /\ pc = "check"
    /\ all_rows # <<>>
    /\ LET om == load_snapshot(snapshot_file)
           nm == KeyedRows(all_rows)
           d  == diff_data(om, nm)
       IN  /\ old_map' = om
           /\ new_map' = nm
           /\ diff_out' = IF HasPriorSnapshot(om) THEN <<d>> ELSE <<>>
           /\ dispatches' =
                IF HasPriorSnapshot(om) /\ Len(d.added) + Len(d.removed) + Len(d.changed) > 0
                THEN send_discord_notification(discord_webhook, d.added, d.removed, d.changed)
                ELSE <<>>
    /\ pc' = "save"
    /\ UNCHANGED <<run, year_idx, all_rows, discord_webhook, cal, snapshot_file, ics_file,
                   snapshot_at_start>>
    /\ UNCHANGED <<evVars, textVars, genVars>>

\* save_snapshot(all_rows)
SaveSnapshot ==
    /\ pc = "save"
    /\ snapshot_file' = save_snapshot(all_rows)
    /\ pc' = "build"
    /\ UNCHANGED <<diffVars, run, year_idx, all_rows, discord_webhook, dispatches, cal,
                   ics_file, snapshot_at_start>>
    /\ UNCHANGED <<evVars, textVars, genVars>>

\* cal = build_calendar(all_rows)
BuildCalendar ==
    /\ pc = "build"
    /\ LET built == build_calendar(all_rows, Now)
       IN  ~built.raised /\ cal' = built.events
    /\ pc' = "write"
    /\ UNCHANGED <<diffVars, run, year_idx, all_rows, discord_webhook, dispatches,
                   snapshot_file, ics_file, snapshot_at_start>>
    /\ UNCHANGED <<evVars, textVars, genVars>>

\* build_calendar raises: main ends with the traceback.
BuildCalendarRaises ==
    /\ pc = "build"
    /\ build_calendar(all_rows, Now).raised
    /\ pc' = "crashed"
    /\ UNCHANGED <<diffVars, run, year_idx, all_rows, discord_webhook, dispatches, cal,
                   snapshot_file, ics_file, snapshot_at_start>>
    /\ UNCHANGED <<evVars, textVars, genVars>>

\* open(output_path, "wb") and f.write(cal.to_ical())
WriteCalendar ==
    /\ pc = "write"
    /\ ics_file' = <<cal>>
    /\ pc' = "done"
    /\ UNCHANGED <<diffVars, run, year_idx, all_rows, discord_webhook, dispatches, cal,
                   snapshot_file, snapshot_at_start>>
    /\ UNCHANGED <<evVars, textVars, genVars>>

\* open(output_path, "wb") raises OSError: main ends with the traceback.
WriteCalendarFails ==
    /\ pc = "write"
    /\ pc' = "crashed"
    /\ UNCHANGED <<diffVars, run, year_idx, all_rows, discord_webhook, dispatches, cal,
                   snapshot_file, ics_file, snapshot_at_start>>
    /\ UNCHANGED <<evVars, textVars, genVars>>

Next ==
    \/ StartRun
    \/ Fetch
    \/ ExitNoData
    \/ CompareAndNotify
    \/ SaveSnapshot
    \/ BuildCalendar
    \/ BuildCalendarRaises
    \/ WriteCalendar
    \/ WriteCalendarFails

Spec == Init /\ [][Next]_vars

C4_PriorSnapshotKeptOnFailure ==
    pc = "crashed" => snapshot_file = snapshot_at_start

\* C4 as amended: the snapshot file still is what the run found until
\* save_snapshot, which comes after the fetch gave at least one row and after
\* the diff and notification, and from then on, so already while the calendar
\* is built and written and also when that fails, it is the fetched rows.
C4_SnapshotReplacedBeforeCalendar ==
    /\ pc \in {"fetch", "check", "save", "exit1"} => snapshot_file = snapshot_at_start
    /\ pc \in {"build", "write", "done", "crashed"} =>
          all_rows # <<>> /\ snapshot_file = <<all_rows>>

\* A run that found a snapshot failed after it had replaced it by other rows.
C4_Witness ==
    /\ pc = "crashed"
    /\ snapshot_at_start # <<>>
    /\ snapshot_file # snapshot_at_start
    /\ snapshot_file = <<all_rows>>

-----------------------------------------------------------------------------
(* SpecDiff: diff_data applied to every pair of maps over a small pool     *)

\* Number of record keys the maps draw from.
NumKeys == 2

\* Keys in the form row_key gives them, not in ascending order.
KeyPool == <<"2330-2025/06/10", "2317-2025/07/01", "91027-2025/06/10", "2330-2025/06/1">>

DiffKeys == {KeyPool[i] : i \in 1..NumKeys}

\* Rows that differ in a labelled field, only in surrounding whitespace, in a
\* field one side lacks (empty or not), and in an unlabelled field.
DiffRows ==
    { (F_NAME :> "A"),
      (F_NAME :> "B"),
      (F_NAME :> " A "),
      (F_NAME :> "A") @@ (F_NOTE :> " "),
      (F_NAME :> "A") @@ (F_NOTE :> "x") @@ (F_QTY :> "5") }

DiffMaps == UNION {[ks -> DiffRows] : ks \in SUBSET DiffKeys}

DiffInit ==
    /\ old_map \in DiffMaps
    /\ new_map \in DiffMaps
    /\ diff_out = <<>>
    /\ MainIdle
    /\ EventsIdle
    /\ TextIdle
    /\ GenIdle

Diff ==
    /\ diff_out = <<>>
    /\ diff_out' = <<diff_data(old_map, new_map)>>
    /\ UNCHANGED <<old_map, new_map, mainVars>>
    /\ UNCHANGED <<evVars, textVars, genVars>>

DiffNext == Diff

SpecDiff == DiffInit /\ [][DiffNext]_vars

Ascending(ks) == \A i \in 1..(Len(ks) - 1) : StrLess(ks[i], ks[i + 1])

\* The enumerations of a set of keys in strictly ascending order (there is one).
AscendingOrders(S) == {ks \in [1..Cardinality(S) -> S] : Ascending(ks)}

\* C1: added is exactly the records of the keys only new_map has, removed
\* exactly the records of the keys only old_map has, each list in ascending
\* key order; the keys both maps have contribute to neither list.
C1_AddedRemovedExact ==
    diff_out # <<>> =>
        LET r       == diff_out[1]
            onlyNew == DOMAIN new_map \ DOMAIN old_map
            onlyOld == DOMAIN old_map \ DOMAIN new_map
        IN  /\ \E ks \in AscendingOrders(onlyNew) :
                  r.added = [i \in 1..Len(ks) |-> new_map[ks[i]]]
            /\ \E ks \in AscendingOrders(onlyOld) :
                  r.removed = [i \in 1..Len(ks) |-> old_map[ks[i]]]

\* Two keys were added whose records differ, so the order of the list shows,
\* while no key was removed.
C1_Witness ==
    /\ diff_out # <<>>
    /\ Len(diff_out[1].added) = 2
    /\ diff_out[1].added[1] # diff_out[1].added[2]
    /\ old_map = <<>>

\* The fields of the union of both rows whose trimmed values differ.
DifferingFields(old_row, new_row) ==
    {f \in DOMAIN old_row \cup DOMAIN new_row :
        strip(Get(old_row, f)) # strip(Get(new_row, f))}

KeysWithDifference ==
    {k \in DOMAIN old_map \cap DOMAIN new_map :
        DifferingFields(old_map[k], new_map[k]) # {}}

\* C2: changed has one entry per key of both maps with a field that differs
\* after trimming (an absent field read as ""), and none for any other key;
\* the entry carries the new record and exactly one (label, old, new) tuple per
\* differing field, the label taken from FIELD_LABELS or else the field name.
C2_ChangedIffFieldDiffers ==
    diff_out # <<>> =>
        LET ch == diff_out[1].changed
        IN  \E ks \in AscendingOrders(KeysWithDifference) :
                /\ Len(ch) = Len(ks)
                /\ \A i \in 1..Len(ks) :
                      LET o  == old_map[ks[i]]
                          n  == new_map[ks[i]]
                          fs == DifferingFields(o, n)
                      IN  /\ ch[i][1] = n
                          /\ Len(ch[i][2]) = Cardinality(fs)
                          /\ {ch[i][2][j] : j \in 1..Len(ch[i][2])} =
                                {<<Label(f), strip(Get(o, f)), strip(Get(n, f))>> : f \in fs}

\* One key changed in a labelled and an unlabelled field, and another key,
\* equal after trimming, produced no entry.
C2_Witness ==
    /\ diff_out # <<>>
    /\ Len(diff_out[1].changed) = 1
    /\ Len(diff_out[1].changed[1][2]) = 2
    /\ <<"qty", "", "5">> \in {diff_out[1].changed[1][2][j] : j \in 1..2}
    /\ <<"note", "", "x">> \in {diff_out[1].changed[1][2][j] : j \in 1..2}
    /\ \E k \in DOMAIN old_map \cap DOMAIN new_map :
          old_map[k] # new_map[k] /\ DifferingFields(old_map[k], new_map[k]) = {}

-----------------------------------------------------------------------------
(* SpecEvents: each script derives the events of a payload of two rows and *)
(* serialises them.  The second row is the first after an upstream edit of *)
(* at most one column.                                                     *)

EvBase ==
    (F_CODE :> "2330") @@ (F_NAME :> "A,b") @@ (F_OPEN :> "2025/06/10") @@
    (F_MARKET :> "TWSE") @@ (F_ISSUE :> "IPO") @@ (F_METHOD :> "") @@
    (F_BIDSTART :> "2025/06/03") @@ (F_BIDEND :> "2025/06/05") @@
    (F_LISTING :> "2025/06/20") @@ (F_QTY :> "1,000") @@ (F_CANCEL :> "")

\* A row without the columns of S.
Without(row, S) == [f \in DOMAIN row \ S |-> row[f]]

\* row with the given text in the given columns.
With4(row, bid_start, bid_end, open, listing) ==
    (F_BIDSTART :> bid_start) @@ (F_BIDEND :> bid_end) @@ (F_OPEN :> open) @@
    (F_LISTING :> listing) @@ row

\* Rows the feed may deliver: every date column valid, cancelled rows, each
\* way a date column fails to hold a date, ends of months and years, the
\* date formats the scripts disagree on, short rows, the last day of all.
EventRows ==
    { EvBase,
      (F_CANCEL :> "withdrawn") @@ EvBase,
      (F_CANCEL :> " ") @@ EvBase,
      Without(EvBase, {F_CANCEL, F_MARKET}),
      With4(EvBase, "", "-", "2025/06/10", "0"),
      With4(EvBase, "N/A", "=", "--", "2025/06/20"),
      With4(EvBase, "2025/06/03", "", "", " "),
      With4(EvBase, "2025/06/03", "2025/06/05", "x", "2025/02/30"),
      With4(EvBase, "", "", "", ""),
      With4(EvBase, "2025/02/28", "2025/04/30", "2025/12/31", "2024/02/28"),
      With4(EvBase, "2025/06/03", "2025/06/05", "2025-06-10", "2025/06/20"),
      With4(EvBase, "2025/6/3", "2025/06/05", "02025/06/10", "2025/13/01"),
      (F_OPEN :> "2025/08/01") @@ (F_NAME :> "D"),
      Without(With4(EvBase, "", "", "", "2025/06/20"), {F_OPEN}),
      With4(EvBase, "", "", "9999/12/31", ""),
      (F_CODE :> "") @@ (F_CANCEL :> "withdrawn") @@ EvBase,
      (F_CODE :> " 2330") @@ (F_OPEN :> " 2025/06/10 ") @@ EvBase }

\* The edits upstream may make to one column of a row.
RowEdits ==
    { <<F_NAME, "B">>, <<F_MARKET, "OTC">>, <<F_ISSUE, "SPO">>,
      <<F_BIDSTART, "2025/06/02">>, <<F_BIDEND, "2025/06/06">>,
      <<F_LISTING, "2025/06/23">>, <<F_CANCEL, "late">>,
      <<F_CODE, "2454">>, <<F_OPEN, "2025/06/11">> }

\* The row again, or the row after one edit.
Twins(row) == {row} \cup {(e[1] :> e[2]) @@ row : e \in RowEdits}

\* cal_name of main in twse_auction_calendar.py, as a stand-in.
CAL_NAME == "TWSE auctions (auto)"

\* --uid-prefix of twse_auction_calendar.py, at its default.
UID_PREFIX == "twse-auction"

\* The generation timestamp of a later run.
Later == "20261106T060000Z"

Reverse(seq) == [k \in 1..Len(seq) |-> seq[Len(seq) + 1 - k]]

\* The same events in another order.
Reordered(events, order) ==
    IF events = <<>> THEN events
    ELSE IF order = "reversed" THEN Reverse(events)
    ELSE Tail(events) \o <<Head(events)>>

EventLines(events) == Flatten([k \in 1..Len(events) |-> events[k].lines])

EventsInit ==
    /\ old_map = <<>>
    /\ new_map = <<>>
    /\ diff_out = <<>>
    /\ MainIdle
    /\ script = ""
    /\ ev_pc = "rows"
    /\ \E row \in EventRows : \E twin \in Twins(row) : ev_rows = <<row, twin>>
    /\ ev_per_row = <<>>
    /\ ev_all = <<>>
    /\ ev_order = ""
    /\ ev_lines = <<>>
    /\ ev_text = ""
    /\ ev_text_alt = ""
    /\ TextIdle
    /\ GenIdle

\* generate_calendar.py: build_calendar; cal.to_ical() is the library's.
DeriveCalendar ==
    /\ ev_pc = "rows"
    /\ script' = "generate_calendar"
    /\ ev_per_row' = <<build_calendar(<<ev_rows[1]>>, Now), build_calendar(<<ev_rows[2]>>, Later)>>
    /\ ev_all' = build_calendar(ev_rows, Now)
    /\ ev_pc' = IF ev_all'.raised THEN "raised" ELSE "derived"
    /\ UNCHANGED <<diffVars, mainVars, textVars, genVars,
                   ev_rows, ev_order, ev_lines, ev_text, ev_text_alt>>

\* generate_twse_auction_calendar.py: build_events and the deduplication of
\* fetch_all_events.
DeriveBuildEvents ==
    /\ ev_pc = "rows"
    /\ script' = "generate_twse_auction_calendar"
    /\ ev_per_row' = << [raised |-> FALSE, events |-> build_events(FeedFields, <<ev_rows[1]>>)],
                        [raised |-> FALSE, events |-> build_events(FeedFields, <<ev_rows[2]>>)] >>
    /\ ev_all' = [raised |-> FALSE, events |-> UniqueByUid(build_events(FeedFields, ev_rows))]
    /\ ev_pc' = "derived"
    /\ UNCHANGED <<diffVars, mainVars, textVars, genVars,
                   ev_rows, ev_order, ev_lines, ev_text, ev_text_alt>>

\* twse_auction_calendar.py: fetch_auction_rows' AuctionRow and rows_to_ics_events.
DeriveIcsEvents ==
    /\ ev_pc = "rows"
    /\ script' = "twse_auction_calendar"
    /\ ev_per_row' = << rows_to_ics_events(UID_PREFIX, <<AuctionRow(ev_rows[1])>>, Now),
                        rows_to_ics_events(UID_PREFIX, <<AuctionRow(ev_rows[2])>>, Later) >>
    /\ ev_all' = rows_to_ics_events(UID_PREFIX,
                        <<AuctionRow(ev_rows[1]), AuctionRow(ev_rows[2])>>, Now)
    /\ ev_pc' = IF ev_all'.raised THEN "raised" ELSE "derived"
    /\ UNCHANGED <<diffVars, mainVars, textVars, genVars,
                   ev_rows, ev_order, ev_lines, ev_text, ev_text_alt>>

\* generate_twse_auction_calendar.py: render_ics(events), and render_ics of
\* the same events in the order ev_order.
RenderIcs ==
    /\ ev_pc = "derived"
    /\ script = "generate_twse_auction_calendar"
    /\ ev_order' \in {"reversed", "rotated"}
    /\ ev_pc' = IF RenderRaises(ev_all.events) THEN "raised" ELSE "written"
    /\ ev_lines' = IF RenderRaises(ev_all.events) THEN <<>> ELSE RenderLines(ev_all.events, Now)
    /\ ev_text' = JoinCRLF(ev_lines')
    /\ ev_text_alt' = render_ics(Reordered(ev_all.events, ev_order'), Now)
    /\ UNCHANGED <<diffVars, mainVars, textVars, genVars,
                   script, ev_rows, ev_per_row, ev_all>>

\* twse_auction_calendar.py: build_ics_calendar(events), and build_ics_calendar
\* of the same events in the order ev_order.
BuildIcsCalendar ==
    /\ ev_pc = "derived"
    /\ script = "twse_auction_calendar"
    /\ ev_order' \in {"reversed", "rotated"}
    /\ ev_lines' = IcsCalendarLines(CAL_NAME, EventLines(ev_all.events))
    /\ ev_text' = FoldedText(ev_lines')
    /\ ev_text_alt' = build_ics_calendar(CAL_NAME, EventLines(Reordered(ev_all.events, ev_order')))
    /\ ev_pc' = "written"
    /\ UNCHANGED <<diffVars, mainVars, textVars, genVars,
                   script, ev_rows, ev_per_row, ev_all>>

EventsNext ==
    \/ DeriveCalendar
    \/ DeriveBuildEvents
    \/ DeriveIcsEvents
    \/ RenderIcs
    \/ BuildIcsCalendar

SpecEvents == EventsInit /\ [][EventsNext]_vars

\* ---- reading a calendar back ----

HasPrefix(line, prefix) == Len(line) >= Len(prefix) /\ SubSeq(line, 1, Len(prefix)) = prefix

\* The content line that begins at lines[k], its continuation lines unfolded.
LogicalLine(lines, k) ==
    LET later == {j \in (k + 1)..Len(lines) : ~HasPrefix(lines[j], " ")}
        last  == IF later = {} THEN Len(lines)
                 ELSE (CHOOSE j \in later : \A i \in later : j <= i) - 1
    IN  ConcatRange([j \in k..last |->
                        IF j = k THEN lines[j] ELSE SubSeq(lines[j], 2, Len(lines[j]))],
                    k, last)

\* Where the VEVENT blocks of a calendar begin, in order.
BlockStarts(lines) ==
    LET begins == {k \in 1..Len(lines) : lines[k] = "BEGIN:VEVENT"}
    IN  [n \in 1..Cardinality(begins) |->
            CHOOSE k \in begins : Cardinality({j \in begins : j < k}) = n - 1]

\* The value of the property of the block that begins at lines[b]: <<>> when
\* the block has no such property, else <<value>>.
BlockProperty(lines, b, name) ==
    LET ends == {k \in b..Len(lines) : lines[k] = "END:VEVENT"}
        e    == CHOOSE k \in ends : \A j \in ends : k <= j
        hits == {k \in b..e : HasPrefix(lines[k], name)}
    IN  IF hits = {} THEN <<>>
        ELSE LET k    == CHOOSE x \in hits : \A y \in hits : x <= y
                 line == LogicalLine(lines, k)
             IN  <<SubSeq(line, Len(name) + 1, Len(line))>>

\* The date an eight-digit DATE value writes, None when it writes none.
DateValue(text) ==
    IF Len(text) = 8 /\ AllDigits(text)
    THEN LET y == DecimalValue(SubSeq(text, 1, 4))
             m == DecimalValue(SubSeq(text, 5, 6))
             d == DecimalValue(SubSeq(text, 7, 8))
         IN  IF ValidDate(y, m, d) THEN <<y, m, d>> ELSE None
    ELSE None

\* The days from 0001-01-01 to a date, counted year by year and month by month.
DayNumber(dt) ==
    LET y == dt[1] - 1
        before == [m \in 1..12 |->
                     CASE m = 1 -> 0 [] m = 2 -> 31 [] m = 3 -> 59 [] m = 4 -> 90
                       [] m = 5 -> 120 [] m = 6 -> 151 [] m = 7 -> 181 [] m = 8 -> 212
                       [] m = 9 -> 243 [] m = 10 -> 273 [] m = 11 -> 304 [] m = 12 -> 334]
    IN  365 * y + (y \div 4) - (y \div 100) + (y \div 400) + before[dt[2]]
            + (IF dt[2] > 2 /\ IsLeap(dt[1]) THEN 1 ELSE 0) + dt[3]

\* The next day of a date d is the date whose day number is one more.
IsNextDay(d, e) == e # None /\ ValidDate(e[1], e[2], e[3]) /\ DayNumber(e) = DayNumber(d) + 1

\* ---- the events of a script, whatever their representation ----

Derived == ev_pc \in {"derived", "raised", "written"}

Written == ev_pc = "written"

ByLines == script = "twse_auction_calendar"

\* The events derived from row i alone.
EventsOf(i) == ev_per_row[i].events

EventSet(i) == {EventsOf(i)[k] : k \in 1..Len(EventsOf(i))}

UidOf(e) == IF ByLines THEN BlockProperty(e.lines, 1, "UID:")[1] ELSE e.uid

\* The reason a row gives for a cancellation, trimmed.
ReasonOf(i) == strip(Get(ev_rows[i], F_CANCEL))

\* The rows agree on the text of a column.
SameText(field) == Get(ev_rows[1], field) = Get(ev_rows[2], field)

\* The rows agree on the trimmed text of a column.
SameTrimmed(field) == strip(Get(ev_rows[1], field)) = strip(Get(ev_rows[2], field))

\* The column an event kind takes its date from (the bid period of
\* generate_calendar.py: its last day).
DateColumn ==
    [k \in {"bid", "open", "list", F_BIDSTART, F_BIDEND, F_OPEN, F_LISTING,
            "BIDSTART", "BIDEND", "OPEN", "ALLOT"} |->
        CASE k \in {F_BIDSTART, "BIDSTART"} -> F_BIDSTART
          [] k \in {"bid", F_BIDEND, "BIDEND"} -> F_BIDEND
          [] k \in {"open", F_OPEN, "OPEN"} -> F_OPEN
          [] k \in {"list", F_LISTING, "ALLOT"} -> F_LISTING]

\* The date the script at work reads in a text.
ScriptDate(text) ==
    CASE script = "generate_calendar" -> parse_date(text)
      [] script = "generate_twse_auction_calendar" -> parse_twse_date(strip(text))
      [] script = "twse_auction_calendar" -> _parse_twse_date(strip(text))

\* The date of row i that an event of the kind is about.
DateOf(i, kind) == ScriptDate(Get(ev_rows[i], DateColumn[kind]))

\* For every event kind both rows yield, the two events have the same uid.
SameUidPerKind ==
    \A e \in EventSet(1), f \in EventSet(2) : e.kind = f.kind => UidOf(e) = UidOf(f)

\* C5 as the claim states it: in each of the scripts, two records that agree on
\* the text of the security code and of the open date get the same uid for
\* each event kind, whatever their other columns hold.
C5_UidFromCodeOpenKind ==
    (Derived /\ SameText(F_CODE) /\ SameText(F_OPEN)) => SameUidPerKind

\* C5, amended: the uid of make_uid depends only on the texts of the security
\* code and of the open date and on the kind; the uid of build_events depends
\* only on the trimmed code, name, market and issue type, the event type and
\* the event's own date; the uid of _event_uid depends only on the prefix, the
\* kind, the trimmed code and the event's own date.
C5_UidDependsOnScript ==
    Derived =>
        /\ (script = "generate_calendar" /\ SameText(F_CODE) /\ SameText(F_OPEN))
                => SameUidPerKind
        /\ script = "generate_twse_auction_calendar" =>
                \A e \in EventSet(1), f \in EventSet(2) :
                    ( /\ e.kind = f.kind
                      /\ e.event_date = f.event_date
                      /\ SameTrimmed(F_CODE) /\ SameTrimmed(F_NAME)
                      /\ SameTrimmed(F_MARKET) /\ SameTrimmed(F_ISSUE) )
                    => e.uid = f.uid
        /\ script = "twse_auction_calendar" =>
                \A e \in EventSet(1), f \in EventSet(2) :
                    ( /\ e.kind = f.kind
                      /\ DateOf(1, e.kind) = DateOf(2, f.kind)
                      /\ SameTrimmed(F_CODE) )
                    => UidOf(e) = UidOf(f)

\* generate_calendar.py derived three events from a row and three from the
\* row after an edit of its name, and the uids of each kind agree.
C5_Witness ==
    /\ Derived
    /\ script = "generate_calendar"
    /\ Get(ev_rows[1], F_NAME) # Get(ev_rows[2], F_NAME)
    /\ Len(EventsOf(1)) = 3 /\ Len(EventsOf(2)) = 3
    /\ \A k \in 1..3 : EventsOf(1)[k].uid = EventsOf(2)[k].uid
    /\ \A k \in 1..3 : EventsOf(1)[k].summary # EventsOf(2)[k].summary

\* C6: the events a script derives from one record for different kinds have
\* pairwise different uids (the digest left uninterpreted, so collision-free),
\* and the same record derived again at a later time yields the same kinds
\* with the same uids.
C6_DistinctUidsPerKind ==
    Derived =>
        /\ \A i \in 1..2 : \A e, f \in EventSet(i) : e.kind # f.kind => UidOf(e) # UidOf(f)
        /\ ev_rows[1] = ev_rows[2] =>
                /\ Len(EventsOf(1)) = Len(EventsOf(2))
                /\ \A k \in 1..Len(EventsOf(1)) :
                      /\ EventsOf(1)[k].kind = EventsOf(2)[k].kind
                      /\ UidOf(EventsOf(1)[k]) = UidOf(EventsOf(2)[k])

\* generate_calendar.py derived the three kinds from the same record at two
\* times: the events differ (in their time stamp), the uids are three.
C6_Witness ==
    /\ Derived
    /\ script = "generate_calendar"
    /\ ev_rows[1] = ev_rows[2]
    /\ Len(EventsOf(1)) = 3
    /\ EventsOf(1) # EventsOf(2)
    /\ Cardinality({UidOf(e) : e \in EventSet(1) \cup EventSet(2)}) = 3

\* The uids of the blocks of the calendar written, in the order written.
BlockUids ==
    LET starts == BlockStarts(ev_lines)
    IN  [n \in 1..Len(starts) |-> BlockProperty(ev_lines, starts[n], "UID:")[1]]

\* The events given to the serialiser, as a set.
GivenEvents == {ev_all.events[k] : k \in 1..Len(ev_all.events)}

\* C7 as the claim states it: in each script that serialises, the same events
\* given in another order yield the same calendar text.
C7_AnyOrderSameText == Written => ev_text_alt = ev_text

\* C7, amended: render_ics writes the blocks in ascending (date, summary, uid)
\* order, so the events fetch_all_events hands it (no two with the same uid)
\* yield the same text in any order; build_ics_calendar writes the blocks in
\* the order it is given them.
C7_RenderIcsSortsEvents ==
    Written =>
        /\ Len(BlockUids) = Len(ev_all.events)
        /\ script = "generate_twse_auction_calendar" =>
                /\ ev_text_alt = ev_text
                /\ \A n \in 1..(Len(BlockUids) - 1) :
                      \E e, f \in GivenEvents :
                          /\ e.uid = BlockUids[n]
                          /\ f.uid = BlockUids[n + 1]
                          /\ SortKeyLess(e, f)
        /\ script = "twse_auction_calendar" =>
                \A n \in 1..Len(BlockUids) : BlockUids[n] = UidOf(ev_all.events[n])

\* render_ics was given five events or more that were not in ascending order,
\* and their reverse, and wrote the same text.
C7_Witness ==
    /\ Written
    /\ script = "generate_twse_auction_calendar"
    /\ ev_order = "reversed"
    /\ Len(ev_all.events) >= 5
    /\ \E n \in 1..(Len(ev_all.events) - 1) :
          SortKeyLess(ev_all.events[n + 1], ev_all.events[n])
    /\ ev_text_alt = ev_text
    /\ Len(ev_text) > 0

\* The kinds whose own date column holds a date, for the script at work.
ExpectedKinds(i) ==
    CASE script = "generate_calendar" ->
            {k \in {"open", "list"} : DateOf(i, k) # None}
                \cup {k \in {"bid"} : DateOf(i, F_BIDSTART) # None /\ DateOf(i, F_BIDEND) # None}
      [] script = "generate_twse_auction_calendar" ->
            {k \in {F_BIDSTART, F_BIDEND, F_OPEN, F_LISTING} : DateOf(i, k) # None}
      [] script = "twse_auction_calendar" ->
            {k \in {"BIDSTART", "BIDEND", "OPEN", "ALLOT"} : DateOf(i, k) # None}

\* C8: the kinds of the events derived from a record are exactly the kinds
\* whose own date column parsed to a date (the bid period needing both the
\* bid start and the bid end), one event for each; a record whose only date
\* is the open date yields exactly the open event.
C8_KindsAreParsedDates ==
    Derived =>
        \A i \in 1..2 :
            /\ {e.kind : e \in EventSet(i)} = ExpectedKinds(i)
            /\ Len(EventsOf(i)) = Cardinality(ExpectedKinds(i))

\* The DATE value of a property of the block that begins at lines[b].
BlockDate(lines, b, name) ==
    LET value == BlockProperty(lines, b, name)
    IN  IF value = <<>> THEN None ELSE DateValue(value[1])

\* C9: every event is an all-day range whose end is exclusive: the event of a
\* single day d starts on d and ends on the day after d, also when d is the
\* last day of a month or of a year; the bid period starts on the bid start
\* and ends on the day after the bid end.
C9_AllDayExclusiveEnd ==
    /\ (Derived /\ script = "generate_calendar") =>
            \A i \in 1..2 : \A e \in EventSet(i) :
                /\ e.dtstart = DateOf(i, IF e.kind = "bid" THEN F_BIDSTART ELSE e.kind)
                /\ IsNextDay(DateOf(i, e.kind), e.dtend)
    /\ (Derived /\ script = "generate_twse_auction_calendar") =>
            \A i \in 1..2 : \A e \in EventSet(i) : e.event_date = DateOf(i, e.kind)
    /\ (Written /\ script = "generate_twse_auction_calendar") =>
            LET starts == BlockStarts(ev_lines)
            IN  /\ Len(starts) = Len(ev_all.events)
                /\ \A n \in 1..Len(starts) :
                      \E e \in GivenEvents :
                          /\ e.uid = BlockUids[n]
                          /\ BlockDate(ev_lines, starts[n], "DTSTART;VALUE=DATE:") = e.event_date
                          /\ IsNextDay(e.event_date,
                                       BlockDate(ev_lines, starts[n], "DTEND;VALUE=DATE:"))
    /\ (Derived /\ script = "twse_auction_calendar") =>
            \A i \in 1..2 : \A e \in EventSet(i) :
                /\ BlockDate(e.lines, 1, "DTSTART;VALUE=DATE:") = DateOf(i, e.kind)
                /\ IsNextDay(DateOf(i, e.kind), BlockDate(e.lines, 1, "DTEND;VALUE=DATE:"))

\* generate_calendar.py derived a bid period from the last day of February to
\* the last day of April, an open event on the last day of a year and a
\* listing event on the day before a leap day.
C9_Witness ==
    /\ Derived
    /\ script = "generate_calendar"
    /\ \E e \in EventSet(1) :
          e.kind = "bid" /\ e.dtstart = <<2025, 2, 28>> /\ e.dtend = <<2025, 5, 1>>
    /\ \E e \in EventSet(1) :
          e.kind = "open" /\ e.dtstart = <<2025, 12, 31>> /\ e.dtend = <<2026, 1, 1>>
    /\ \E e \in EventSet(1) :
          e.kind = "list" /\ e.dtstart = <<2024, 2, 28>> /\ e.dtend = <<2024, 2, 29>>

\* The summary opens with the cancellation tag.
Tagged(summary) == HasPrefix(summary, CANCELLED_TAG)

\* The block of the calendar written that begins at lines[b] is marked cancelled.
BlockCancelled(lines, b) ==
    /\ BlockProperty(lines, b, "STATUS:") = <<"CANCELLED">>
    /\ Tagged(BlockProperty(lines, b, "SUMMARY:")[1])

\* The rows an event with this uid is derived from.
RowsOfUid(uid) == {i \in 1..2 : \E e \in EventSet(i) : UidOf(e) = uid}

-----------------------------------------------------------------------------
(* The text functions on their own: ics_escape, _ics_escape_text,          *)
(* fold_ical_line, _ics_fold_line, each applied once to one text            *)

\* The longest text of the escaping pool.
MaxTextLen == 4

\* The longest line of the folding pool.
MaxLineLen == 152

\* The characters of the escaping pool: two ordinary ones, backslash,
\* semicolon, comma and newline.
EscapeAlphabet == {"a", "n", "\\", ";", ",", "\n"}

\* Every text of at most n characters of EscapeAlphabet.
RECURSIVE TextsUpTo(_)
TextsUpTo(n) ==
    IF n = 0 THEN {""}
    ELSE LET shorter == TextsUpTo(n - 1)
         IN  shorter \cup {t \o c : t \in shorter, c \in EscapeAlphabet}

\* What the lines of the folding pool repeat: characters of 1, 2, 3 and 4
\* octets, alone and mixed, and a line with spaces.
FoldUnits == <<"a", "&", "^", "$", "ab^", "a $&^", "SUMMARY:^^ a">>

\* The first n characters of unit repeated.
Repeated(unit, n) ==
    ConcatRange([i \in 1..n |-> CharAt(unit, ((i - 1) % Len(unit)) + 1)], 1, n)

FoldLines == {Repeated(FoldUnits[u], n) : u \in 1..Len(FoldUnits), n \in 0..MaxLineLen}

TextPool == TextsUpTo(MaxTextLen) \cup FoldLines

\* The physical lines of a folded text: the text cut at every CRLF.
RECURSIVE LinesFrom(_, _, _)
LinesFrom(text, start, breaks) ==
    LET ahead == {b \in breaks : b >= start}
    IN  IF ahead = {} THEN <<SubSeq(text, start, Len(text))>>
        ELSE LET b == CHOOSE x \in ahead : \A y \in ahead : x <= y
             IN  <<SubSeq(text, start, b - 1)>> \o LinesFrom(text, b + 2, ahead \ {b})

PhysicalLines(text) ==
    LinesFrom(text, 1, {i \in 1..(Len(text) - 1) : SubSeq(text, i, i + 1) = "\r\n"})

TextInit ==
    /\ old_map = <<>>
    /\ new_map = <<>>
    /\ diff_out = <<>>
    /\ MainIdle
    /\ EventsIdle
    /\ GenIdle
    /\ tx_fn = ""
    /\ tx_in \in TextPool
    /\ tx_out = <<>>

\* generate_twse_auction_calendar.py: ics_escape(tx_in)
IcsEscape ==
    /\ tx_fn = ""
    /\ tx_fn' = "ics_escape"
    /\ tx_out' = <<ics_escape(tx_in)>>
    /\ UNCHANGED <<diffVars, mainVars, evVars, genVars, tx_in>>

\* twse_auction_calendar.py: _ics_escape_text(tx_in)
IcsEscapeText ==
    /\ tx_fn = ""
    /\ tx_fn' = "_ics_escape_text"
    /\ tx_out' = <<_ics_escape_text(tx_in)>>
    /\ UNCHANGED <<diffVars, mainVars, evVars, genVars, tx_in>>

\* generate_twse_auction_calendar.py: fold_ical_line(tx_in)
FoldIcalLine ==
    /\ tx_fn = ""
    /\ tx_fn' = "fold_ical_line"
    /\ tx_out' = fold_ical_line(tx_in, FOLD_LIMIT)
    /\ UNCHANGED <<diffVars, mainVars, evVars, genVars, tx_in>>

\* twse_auction_calendar.py: _ics_fold_line(tx_in), read as physical lines
IcsFoldLine ==
    /\ tx_fn = ""
    /\ tx_fn' = "_ics_fold_line"
    /\ tx_out' = PhysicalLines(_ics_fold_line(tx_in))
    /\ UNCHANGED <<diffVars, mainVars, evVars, genVars, tx_in>>

TextNext == IcsEscape \/ IcsEscapeText \/ FoldIcalLine \/ IcsFoldLine

SpecText == TextInit /\ [][TextNext]_vars

Folded == tx_fn \in {"fold_ical_line", "_ics_fold_line"}

Escaped == tx_fn \in {"ics_escape", "_ics_escape_text"}

\* len(text[lo..hi].encode("utf-8")), by halves.
RECURSIVE OctetsRange(_, _, _)
OctetsRange(text, lo, hi) ==
    IF lo > hi THEN 0
    ELSE IF lo = hi THEN Utf8Len(CharAt(text, lo))
    ELSE LET mid == (lo + hi) \div 2
         IN  OctetsRange(text, lo, mid) + OctetsRange(text, mid + 1, hi)

Octets(text) == OctetsRange(text, 1, Len(text))

\* The octets a physical line may hold (RFC 5545, 3.1).
LineOctets == 75

\* C11: every physical line a folding function produces, the leading space of
\* a continuation line counted, is at most 75 octets long.
C11_PhysicalLinesWithin75Octets ==
    Folded => \A k \in 1..Len(tx_out) : Octets(tx_out[k]) <= LineOctets

\* What the folding functions do keep to: a part of fold_ical_line is at most
\* 75 octets before its leading space is added (or one character alone), and a
\* line of _ics_fold_line is at most 73 characters.
C11_FoldKeepsItsOwnBudget ==
    /\ tx_fn = "fold_ical_line" =>
          \A k \in 1..Len(tx_out) :
              LET part == IF k = 1 THEN tx_out[k] ELSE SubSeq(tx_out[k], 2, Len(tx_out[k]))
              IN  Octets(part) <= FOLD_LIMIT \/ Len(part) = 1
    /\ tx_fn = "_ics_fold_line" => \A k \in 1..Len(tx_out) : Len(tx_out[k]) <= FOLD_CHARS

\* A continuation line of fold_ical_line that is 76 octets long.
C11_ContinuationOf76Octets ==
    /\ tx_fn = "fold_ical_line"
    /\ \E k \in 2..Len(tx_out) : Octets(tx_out[k]) = LineOctets + 1

\* The text the physical lines stand for: every continuation line without its
\* first character, all joined.
Unfolded(lines) ==
    ConcatRange([k \in 1..Len(lines) |->
                    IF k = 1 THEN lines[k] ELSE SubSeq(lines[k], 2, Len(lines[k]))],
                1, Len(lines))

\* Every continuation line begins with a space, and unfolding gives the line back.
FoldRoundTrip ==
    /\ Len(tx_out) >= 1
    /\ \A k \in 2..Len(tx_out) : Len(tx_out[k]) >= 2 /\ CharAt(tx_out[k], 1) = " "
    /\ Unfolded(tx_out) = tx_in

\* The budget of each folding function: 75 octets for fold_ical_line, 73
\* characters for _ics_fold_line.
WithinOwnBudget ==
    IF tx_fn = "fold_ical_line" THEN Octets(tx_in) <= FOLD_LIMIT ELSE Len(tx_in) <= FOLD_CHARS

\* C12 as stated: folding can be undone by removing the one leading space of
\* every continuation line, and a line within the budget of 75 octets comes
\* back as one unchanged physical line.
C12_FoldRoundTrip75 ==
    Folded => /\ FoldRoundTrip
              /\ Octets(tx_in) <= LineOctets => tx_out = <<tx_in>>

\* C12, with the budget each function has: folding can be undone by removing
\* the one leading space of every continuation line, and a line within the
\* function's budget (75 octets for fold_ical_line, 73 characters for
\* _ics_fold_line) comes back as one unchanged physical line.
C12_FoldRoundTripOwnBudget ==
    Folded => /\ FoldRoundTrip
              /\ WithinOwnBudget => tx_out = <<tx_in>>

\* A line with characters of several octets folded into three or more
\* physical lines.
C12_Witness ==
    /\ Folded
    /\ Len(tx_out) >= 3
    /\ Octets(tx_in) > Len(tx_in)

\* The escape of one character (RFC 5545, 3.3.11).
EscapeOf(c) ==
    IF c = "\\" THEN "\\\\"
    ELSE IF c = ";" THEN "\\;"
    ELSE IF c = "," THEN "\\,"
    ELSE IF c = "\n" THEN "\\n"
    ELSE c

EscapedByCharacter(text) ==
    ConcatRange([i \in 1..Len(text) |-> EscapeOf(CharAt(text, i))], 1, Len(text))

\* A conforming reader's unescape of text[start..]: a backslash and the
\* character after it stand for one character, newline for n or N.
RECURSIVE UnescapeFrom(_, _)
UnescapeFrom(text, start) ==
    LET ahead == {i \in start..Len(text) : CharAt(text, i) = "\\"}
    IN  IF ahead = {} THEN SubSeq(text, start, Len(text))
        ELSE LET b    == CHOOSE x \in ahead : \A y \in ahead : x <= y
                 next == CharAt(text, b + 1)
             IN  SubSeq(text, start, b - 1)
                    \o (IF next \in {"n", "N"} THEN "\n" ELSE next)
                    \o UnescapeFrom(text, b + 2)

Unescape(text) == UnescapeFrom(text, 1)

\* The text has no carriage return: the claim's texts.
ClaimText(text) == \A i \in 1..Len(text) : CharAt(text, i) # "\r"

\* C13: escaping replaces every backslash, semicolon, comma and newline by its
\* two-character escape and keeps every other character, and a conforming
\* unescape gives the text back.
C13_EscapeRoundTrip ==
    (Escaped /\ ClaimText(tx_in)) =>
        /\ tx_out[1] = EscapedByCharacter(tx_in)
        /\ Unescape(tx_out[1]) = tx_in

\* A text with a backslash before an n, a newline and a separator, escaped.
C13_Witness ==
    /\ Escaped
    /\ \E i \in 1..(Len(tx_in) - 1) : SubSeq(tx_in, i, i + 1) = "\\n"
    /\ \E i \in 1..Len(tx_in) : CharAt(tx_in, i) = "\n"
    /\ \E i \in 1..Len(tx_in) : CharAt(tx_in, i) \in {";", ","}

-----------------------------------------------------------------------------
(* send_discord_notification on its own, on diff results of every size      *)

\* The most added, changed and removed records of a diff result.
MaxAdded == 12

MaxChanged == 5

MaxRemoved == 5

\* The i-th record of a diff result; tag tells the lists apart.
NotifyRow(tag, i) ==
    (F_CODE :> ToString(1000 + i)) @@ (F_OPEN :> "2025/06/10") @@ (F_NAME :> tag)

NotifyRows(tag, n) == [i \in 1..n |-> NotifyRow(tag, i)]

\* n entries of changed: the new record and its (label, old, new) tuples.
NotifyChanges(n) ==
    [i \in 1..n |-> <<NotifyRow("chg", i), << <<Label(F_QTY), ToString(i), "">> >> >>]

NotifyInit ==
    /\ old_map = <<>>
    /\ new_map = <<>>
    /\ \E na \in 0..MaxAdded, nc \in 0..MaxChanged, nr \in 0..MaxRemoved :
          diff_out = <<[added   |-> NotifyRows("add", na),
                        removed |-> NotifyRows("del", nr),
                        changed |-> NotifyChanges(nc)]>>
    /\ pc = "check"
    /\ run = 1
    /\ year_idx = 0
    /\ all_rows = <<>>
    /\ discord_webhook \in {"", "https://discord.com/api/webhooks/1"}
    /\ dispatches = <<>>
    /\ cal = <<>>
    /\ snapshot_file = <<>>
    /\ ics_file = <<>>
    /\ snapshot_at_start = <<>>
    /\ EventsIdle
    /\ TextIdle
    /\ GenIdle

\* send_discord_notification(webhook_url, added, removed, changed)
SendDiscordNotification ==
    /\ pc = "check"
    /\ dispatches' = send_discord_notification(discord_webhook, diff_out[1].added,
                                               diff_out[1].removed, diff_out[1].changed)
    /\ pc' = "save"
    /\ UNCHANGED <<diffVars, run, year_idx, all_rows, discord_webhook, cal, snapshot_file,
                   ics_file, snapshot_at_start>>
    /\ UNCHANGED <<evVars, textVars, genVars>>

NotifyNext == SendDiscordNotification

SpecNotify == NotifyInit /\ [][NotifyNext]_vars

\* One message per added record, then per changed record, then per removed one.
MessagesOf(d) ==
    [i \in 1..Len(d.added) |-> AddedEmbed(d.added[i])]
        \o [i \in 1..Len(d.changed) |-> ChangedEmbed(d.changed[i])]
        \o [i \in 1..Len(d.removed) |-> RemovedEmbed(d.removed[i])]

\* The messages of all dispatches, in the order sent.
Dispatched == Flatten([k \in 1..Len(dispatches) |-> dispatches[k].embeds])

\* C14: with a webhook set, the dispatches carry the messages of the added,
\* then the changed, then the removed records, each once and in that order, in
\* consecutive chunks of 1 to 10 messages, every chunk but the last full; the
\* summary text is in the first dispatch and in no other. Without a webhook
\* nothing is dispatched.
C14_ChunksOfTenInOrder ==
    pc = "save" =>
        IF discord_webhook = "" THEN dispatches = <<>>
        ELSE /\ Dispatched = MessagesOf(diff_out[1])
             /\ \A k \in 1..Len(dispatches) :
                   /\ Len(dispatches[k].embeds) \in 1..MAX_EMBEDS
                   /\ k < Len(dispatches) => Len(dispatches[k].embeds) = MAX_EMBEDS
                   /\ ("content" \in DOMAIN dispatches[k]) <=> (k = 1)

\* 22 messages went out in three dispatches.
C14_Witness ==
    /\ pc = "save"
    /\ Len(dispatches) = 3
    /\ Len(Dispatched) = 2 * MAX_EMBEDS + 2
    /\ Len(diff_out[1].changed) > 0
    /\ Len(diff_out[1].removed) > 0

-----------------------------------------------------------------------------
(* C15: main contacts the sink only for a diff with an entry                *)

\* The prior snapshot and the new records differ: a key of one map only, or a
\* record of a common key with a field that differs after trimming.
MapsDiffer == DOMAIN old_map # DOMAIN new_map \/ KeysWithDifference # {}

\* C15: a run of main posts to the webhook only if it found a prior snapshot
\* that differs from the new records in an added, removed or changed entry;
\* when the diff is empty nothing is posted.
C15_SinkOnlyOnNonEmptyDiff ==
    pc \in {"save", "build", "write", "done", "crashed"} =>
        /\ dispatches # <<>> => (old_map # <<>> /\ MapsDiffer)
        /\ (diff_out # <<>> /\ ~MapsDiffer) =>
              /\ diff_out[1] = [added |-> <<>>, removed |-> <<>>, changed |-> <<>>]
              /\ dispatches = <<>>

\* A run with a webhook that found a prior snapshot equal to the new records.
C15_Witness ==
    /\ pc = "done"
    /\ discord_webhook # ""
    /\ old_map # <<>>
    /\ diff_out # <<>>
    /\ ~MapsDiffer
    /\ dispatches = <<>>

-----------------------------------------------------------------------------
(* C16: what one record's content does to the derivation                    *)

\* The UIDs of the events derived from the whole payload.
UidsOfAll == {UidOf(ev_all.events[k]) : k \in 1..Len(ev_all.events)}

\* C16: deriving and serialising never raise, whatever columns a record lacks
\* and whatever text its date columns hold, and the events of each record,
\* as derived from it alone, are among the events of the payload.
C16_NoRecordStopsTheOthers ==
    Derived =>
        /\ ev_pc # "raised"
        /\ ~ev_all.raised
        /\ \A i \in 1..2 :
              /\ ~ev_per_row[i].raised
              /\ {UidOf(e) : e \in EventSet(i)} \subseteq UidsOfAll

\* build_calendar raised on a payload of two records: the one without the
\* security-code column makes make_uid raise, the other alone gives events.
C16_OneRecordStopsAll ==
    /\ script = "generate_calendar"
    /\ ev_pc = "raised"
    /\ F_CODE \notin DOMAIN ev_rows[1]
    /\ ev_per_row[1].raised
    /\ ~ev_per_row[2].raised
    /\ EventsOf(2) # <<>>

-----------------------------------------------------------------------------
(* generate_twse_auction_calendar.py: main, fetch_all_events, fetch_json    *)

\* The years of the requested period.
GenYears == 2

\* The largest retries a run calls fetch_json with (the default is 3).
MaxRetries == 4

\* str.upper() on the letters a to z; the other characters of the model have
\* no upper case.
UpperTable ==
    [c \in {CharAt(PrintableHigh, i) : i \in 1..26} |->
        CharAt("ABCDEFGHIJKLMNOPQRSTUVWXYZ",
               CHOOSE i \in 1..26 : CharAt(PrintableHigh, i) = c)]

upper(text) ==
    ConcatRange([i \in 1..Len(text) |->
                    LET c == CharAt(text, i)
                    IN  IF c \in DOMAIN UpperTable THEN UpperTable[c] ELSE c],
                1, Len(text))

\* What the feed may answer for one year: rows with dates, a row without any
\* date, the last day of all, no rows, and an answer that is not "OK".
GenPayloads ==
    { [stat |-> "OK", data |-> <<EvBase>>],
      [stat |-> "ok", data |-> <<(F_NAME :> "B") @@ EvBase>>],
      [stat |-> "OK", data |-> <<With4(EvBase, "", "-", "0", "")>>],
      [stat |-> "OK", data |-> <<With4(EvBase, "", "", "9999/12/31", "")>>],
      [stat |-> "OK", data |-> <<>>],
      [stat |-> "no data", data |-> <<>>] }

\* The calendar file a former run left.
PreviousCalendar == "BEGIN:VCALENDAR (of a former run)"

\* One entry of fj_trace: attempt k with its outcome ("ok", "error" for one
\* of the exceptions fetch_json catches, "raised" for any other), or the
\* sleep after attempt k.
AttemptEntry(k, outcome) == [kind |-> "attempt", k |-> k, outcome |-> outcome, secs |-> 0]

SleepEntry(k, secs) == [kind |-> "sleep", k |-> k, outcome |-> "", secs |-> secs]

\* Mutant of Backoff: every wait is one second.
BackoffConstant(attempt) == 1

\* time.sleep(2 ** (attempt - 1))
Backoff(attempt) == 2 ^ (attempt - 1)

GenInit ==
    /\ old_map = <<>>
    /\ new_map = <<>>
    /\ diff_out = <<>>
    /\ MainIdle
    /\ EventsIdle
    /\ TextIdle
    /\ gen_pc = "call"
    /\ gen_year = 1
    /\ gen_rows = <<>>
    /\ gen_events = <<>>
    /\ gen_file \in {<<>>, <<PreviousCalendar>>}
    /\ gen_exit = <<>>
    /\ fj_retries \in 0..MaxRetries
    /\ fj_attempt = 0
    /\ fj_trace = <<>>
    /\ fj_result = <<>>

\* fetch_all_events calls fetch_json for the year gen_year.
CallFetchJson ==
    /\ gen_pc = "call"
    /\ gen_pc' = "fetch"
    /\ fj_attempt' = 0
    /\ fj_trace' = <<>>
    /\ fj_result' = <<>>
    /\ UNCHANGED <<gen_year, gen_rows, gen_events, gen_file, gen_exit, fj_retries>>
    /\ UNCHANGED <<diffVars, mainVars, evVars, textVars>>

\* An attempt succeeds: fetch_json returns the payload.
AttemptSucceeds ==
    /\ gen_pc = "fetch"
    /\ fj_attempt < fj_retries
    /\ \E payload \in GenPayloads : fj_result' = <<"returned", payload>>
    /\ fj_attempt' = fj_attempt + 1
    /\ fj_trace' = Append(fj_trace, AttemptEntry(fj_attempt + 1, "ok"))
    /\ gen_pc' = "payload"
    /\ UNCHANGED <<gen_year, gen_rows, gen_events, gen_file, gen_exit, fj_retries>>
    /\ UNCHANGED <<diffVars, mainVars, evVars, textVars>>

\* The body of the loop of fetch_all_events on the payload of the year: a
\* payload whose stat is not "OK" is passed over.
ExtendEvents ==
    /\ gen_pc = "payload"
    /\ LET payload == fj_result[2]
           usable  == upper(payload.stat) = "OK"
       IN  /\ gen_rows' = IF usable THEN gen_rows \o payload.data ELSE gen_rows
           /\ gen_events' = IF usable
                            THEN gen_events \o build_events(FeedFields, payload.data)
                            ELSE gen_events
    /\ gen_year' = gen_year + 1
    /\ gen_pc' = IF gen_year = GenYears THEN "render" ELSE "call"
    /\ UNCHANGED <<gen_file, gen_exit, fj_retries, fj_attempt, fj_trace, fj_result>>
    /\ UNCHANGED <<diffVars, mainVars, evVars, textVars>>

\* An attempt ends in HTTPError, URLError, TimeoutError or JSONDecodeError:
\* fetch_json sleeps and goes on, or after the last attempt raises
\* RuntimeError, which main does not catch.
AttemptFails ==
    /\ gen_pc = "fetch"
    /\ fj_attempt < fj_retries
    /\ fj_attempt' = fj_attempt + 1
    /\ IF fj_attempt' = fj_retries
       THEN /\ fj_trace' = Append(fj_trace, AttemptEntry(fj_attempt', "error"))
            /\ fj_result' = <<"RuntimeError">>
            /\ gen_pc' = "failed"
            /\ gen_exit' = <<1>>
       ELSE /\ fj_trace' = fj_trace \o <<AttemptEntry(fj_attempt', "error"),
                                         SleepEntry(fj_attempt', Backoff(fj_attempt'))>>
            /\ UNCHANGED <<fj_result, gen_pc, gen_exit>>
    /\ UNCHANGED <<gen_year, gen_rows, gen_events, gen_file, fj_retries>>
    /\ UNCHANGED <<diffVars, mainVars, evVars, textVars>>

\* An attempt ends in an exception fetch_json does not catch (the
\* UnicodeDecodeError of a body that is not UTF-8): it leaves fetch_json and
\* main at once.
AttemptRaises ==
    /\ gen_pc = "fetch"
    /\ fj_attempt < fj_retries
    /\ fj_attempt' = fj_attempt + 1
    /\ fj_trace' = Append(fj_trace, AttemptEntry(fj_attempt', "raised"))
    /\ fj_result' = <<"UnicodeDecodeError">>
    /\ gen_pc' = "failed"
    /\ gen_exit' = <<1>>
    /\ UNCHANGED <<gen_year, gen_rows, gen_events, gen_file, fj_retries>>
    /\ UNCHANGED <<diffVars, mainVars, evVars, textVars>>

\* range(1, retries + 1) is empty: fetch_json raises RuntimeError at once.
NoAttempt ==
    /\ gen_pc = "fetch"
    /\ fj_retries = 0
    /\ fj_result' = <<"RuntimeError">>
    /\ gen_pc' = "failed"
    /\ gen_exit' = <<1>>
    /\ UNCHANGED <<gen_year, gen_rows, gen_events, gen_file, fj_retries, fj_attempt, fj_trace>>
    /\ UNCHANGED <<diffVars, mainVars, evVars, textVars>>

\* The events fetch_all_events returns.
FetchedEvents == UniqueByUid(gen_events)

\* render_ics(events), output_path.write_text(ics_text) and "return 0".
RenderAndWrite ==
    /\ gen_pc = "render"
    /\ ~RenderRaises(FetchedEvents)
    /\ gen_file' = <<render_ics(FetchedEvents, Now)>>
    /\ gen_exit' = <<0>>
    /\ gen_pc' = "done"
    /\ UNCHANGED <<gen_year, gen_rows, gen_events, fj_retries, fj_attempt, fj_trace, fj_result>>
    /\ UNCHANGED <<diffVars, mainVars, evVars, textVars>>

\* render_ics raises, or write_text does (OSError): main ends with the traceback.
RenderOrWriteFails ==
    /\ gen_pc = "render"
    /\ gen_exit' = <<1>>
    /\ gen_pc' = "failed"
    /\ UNCHANGED <<gen_year, gen_rows, gen_events, gen_file, fj_retries, fj_attempt, fj_trace,
                   fj_result>>
    /\ UNCHANGED <<diffVars, mainVars, evVars, textVars>>

GenNext ==
    \/ CallFetchJson
    \/ AttemptSucceeds
    \/ ExtendEvents
    \/ AttemptFails
    \/ AttemptRaises
    \/ NoAttempt
    \/ RenderAndWrite
    \/ RenderOrWriteFails

SpecGen == GenInit /\ [][GenNext]_vars

\* One turn of the loop of fetch_json.
FetchJsonStep == AttemptSucceeds \/ AttemptFails \/ AttemptRaises \/ NoAttempt

\* The loop of fetch_json is sequential code, urlopen has a timeout and sleep
\* returns: a call that has a turn to take takes it.
SpecGenFair == SpecGen /\ WF_vars(FetchJsonStep)

\* C17: a run that fetched zero records over all its years ends with a
\* non-zero exit status and has not written the calendar file.
C17_ZeroRecordsHardFailure ==
    (gen_pc \in {"done", "failed"} /\ gen_rows = <<>>) =>
        /\ gen_exit # <<>>
        /\ gen_exit[1] # 0
        /\ gen_file \in {<<>>, <<PreviousCalendar>>}

\* Every year was fetched and none had a record, and main returned 0 after it
\* wrote a calendar without events over the one a former run left.
C17_EmptyCalendarWritten ==
    /\ gen_pc = "done"
    /\ gen_year = GenYears + 1
    /\ gen_rows = <<>>
    /\ gen_exit = <<0>>
    /\ gen_file # <<PreviousCalendar>>
    /\ gen_file[1] = render_ics(<<>>, Now)

\* What generate_calendar.main does when no year gave a record: it exits with
\* status 1 before it loads or saves the snapshot, posts or writes.
C17_MainExitsWithoutData ==
    /\ (pc \in {"save", "build", "write", "done", "crashed"}) => all_rows # <<>>
    /\ pc = "exit1" =>
          /\ all_rows = <<>>
          /\ snapshot_file = snapshot_at_start
          /\ dispatches = <<>>
          /\ cal = <<>>

-----------------------------------------------------------------------------
(* C18: the retries of fetch_json                                           *)

\* The attempts of the current or last call of fetch_json, in order.
AttemptsMade == SelectSeq(fj_trace, LAMBDA e : e.kind = "attempt")

\* What the call has done so far is what retries = fj_retries allows: the
\* attempts are numbered from 1 and are at most fj_retries; nothing follows a
\* successful attempt, whose payload is returned; the k-th attempt that failed
\* with a caught error is followed, when k < fj_retries, by one sleep of
\* 2^(k-1) seconds and then by nothing but attempt k+1, and when k = fj_retries
\* by no sleep and the RuntimeError; there is no other sleep.
RetriesAsPrescribed ==
    /\ Len(AttemptsMade) = fj_attempt
    /\ fj_attempt <= fj_retries
    /\ \A k \in 1..Len(AttemptsMade) : AttemptsMade[k].k = k
    /\ \A i \in 1..Len(fj_trace) :
          LET e == fj_trace[i]
          IN  /\ (e.kind = "attempt" /\ e.outcome = "ok") =>
                    /\ i = Len(fj_trace)
                    /\ Len(fj_result) = 2
                    /\ fj_result[1] = "returned"
                    /\ fj_result[2] \in GenPayloads
              /\ (e.kind = "attempt" /\ e.outcome = "error" /\ e.k < fj_retries) =>
                    /\ i < Len(fj_trace)
                    /\ fj_trace[i + 1] = SleepEntry(e.k, 2 ^ (e.k - 1))
                    /\ i + 1 < Len(fj_trace) => fj_trace[i + 2].kind = "attempt"
                    /\ i + 1 = Len(fj_trace) => fj_result = <<>>
              /\ (e.kind = "attempt" /\ e.outcome = "error" /\ e.k = fj_retries) =>
                    /\ i = Len(fj_trace)
                    /\ fj_result = <<"RuntimeError">>
              /\ (e.kind = "attempt" /\ e.outcome = "raised") =>
                    /\ i = Len(fj_trace)
                    /\ fj_result = <<"UnicodeDecodeError">>
              /\ e.kind = "sleep" =>
                    /\ i > 1
                    /\ fj_trace[i - 1] = AttemptEntry(e.k, "error")
    /\ (fj_result # <<>> /\ fj_result[1] = "returned") =>
          /\ fj_trace # <<>>
          /\ fj_trace[Len(fj_trace)].outcome = "ok"

\* C18: a call of fetch_json with retries = N makes at most N attempts, returns
\* the payload of the first successful one and attempts nothing after it,
\* sleeps 2^(k-1) seconds after the k-th failed attempt when k < N, and after
\* the N-th raises without a sleep; and every call ends.
C18_BoundedRetriesThenFailure ==
    /\ [](gen_pc # "idle" => RetriesAsPrescribed)
    /\ (gen_pc = "fetch") ~> (fj_result # <<>>)

\* A call with retries = 4 slept 1, 2 and 4 seconds and failed the fourth time.
C18_Witness ==
    /\ fj_retries = MaxRetries
    /\ fj_attempt = MaxRetries
    /\ fj_result = <<"RuntimeError">>
    /\ Len(fj_trace) = 2 * MaxRetries - 1
    /\ fj_trace[2 * MaxRetries - 2].secs = 2 ^ (MaxRetries - 2)

-----------------------------------------------------------------------------
(* C19: main run again on the same fetched records                          *)

\* This run fetched the very list of records the snapshot it found holds.
SameRecordsAgain ==
    /\ run >= 2
    /\ all_rows # <<>>
    /\ snapshot_at_start = <<all_rows>>
    /\ pc \in {"save", "build", "write", "done", "crashed"}

\* C19: a run on the list of records the run before saved finds an empty
\* diff, also when records of the list share a key, posts nothing, and saves
\* a snapshot equal to the one it found.
C19_SecondRunIdempotent ==
    SameRecordsAgain =>
        /\ diff_out = <<[added |-> <<>>, removed |-> <<>>, changed |-> <<>>]>>
        /\ dispatches = <<>>
        /\ pc # "save" => snapshot_file = snapshot_at_start

\* A second run, with a webhook, on the same three records, two of them with
\* one key and different names, has ended.
C19_Witness ==
    /\ SameRecordsAgain
    /\ pc = "done"
    /\ discord_webhook # ""
    /\ \E i, j \in 1..Len(all_rows) :
          /\ i < j
          /\ row_key(all_rows[i]) = row_key(all_rows[j])
          /\ all_rows[i] # all_rows[j]
    /\ snapshot_file = <<all_rows>>

=============================================================================
